---- MODULE Spec2Model ----
(***************************************************************************)
(* Underchex (hexagonal chess, Rust/WASM implementation): a model of the   *)
(* move generator, the game state machine, the alpha-beta search with its  *)
(* transposition table, and the retrograde endgame tablebase.              *)
(*                                                                         *)
(* Representation.  A HexCoord is a record [q, r].  A board key, the       *)
(* string "q,r" of the source, is the pair <<q, r>> of its two decimal     *)
(* fields.  A BoardState (HashMap<String, Piece>) is a function whose      *)
(* DOMAIN is the set of occupied keys.  Option<T> values use a None value  *)
(* of the shape of T.  A Vec is a sequence.                                *)
(***************************************************************************)
EXTENDS Integers, Sequences, FiniteSets, TLC

\* ------------------------------------------------------------------------
\* State
\* ------------------------------------------------------------------------

VARIABLES
    hash_seed,  \* the hasher's seed: fixes the iteration order of the maps
    state,      \* WasmGame.state, the GameState of the game object
    call,       \* the last call made, with its arguments and return value
    script,     \* the scenario the callers follow
    tablebases, \* TABLEBASES, the loaded tablebases by name
    gen,        \* the activation of generate_tablebase
    probe_result, \* the result of the last probe_tablebase call
    probes,     \* the number of probe_tablebase calls made
    tt,         \* GLOBAL_TT, the transposition table
    stack,      \* the activations of find_best_move and alpha_beta
    result,     \* the SearchResult of the last finished find_best_move
    last_store, \* the last entry alpha_beta stored, with the node's window
    searches,   \* the number of finished find_best_move calls
    ai          \* the activation of find_best_move_iterative or get_ai_move

searchVars == <<tt, stack, result, last_store, searches>>

tbVars == <<tablebases, gen, probe_result, probes>>

vars == <<hash_seed, script, call, state, searchVars, tbVars, ai>>

\* ------------------------------------------------------------------------
\* types.rs
\* ------------------------------------------------------------------------

HexCoord(q, r) == [q |-> q, r |-> r]

NoCoord == [q |-> 99, r |-> 99]

s_of(coord) == (0 - coord.q) - coord.r

to_key(coord) == <<coord.q, coord.r>>

from_key(key) == IF Len(key) # 2 THEN NoCoord ELSE [q |-> key[1], r |-> key[2]]

Abs(x) == IF x < 0 THEN 0 - x ELSE x

Max2(a, b) == IF a >= b THEN a ELSE b

Min2(a, b) == IF a <= b THEN a ELSE b

\* Direction::all(), in the order of the source.
DirAll == <<"N", "S", "NE", "SW", "NW", "SE">>

Directions == {"N", "S", "NE", "SW", "NW", "SE"}

delta(dir) ==
    CASE dir = "N" -> <<0, -1>>
      [] dir = "S" -> <<0, 1>>
      [] dir = "NE" -> <<1, -1>>
      [] dir = "SW" -> <<-1, 1>>
      [] dir = "NW" -> <<-1, 0>>
      [] dir = "SE" -> <<1, 0>>

opposite_dir(dir) ==
    CASE dir = "N" -> "S"
      [] dir = "S" -> "N"
      [] dir = "NE" -> "SW"
      [] dir = "SW" -> "NE"
      [] dir = "NW" -> "SE"
      [] dir = "SE" -> "NW"

diagonals == <<"NE", "NW", "SE", "SW">>

lance_a == <<"N", "S", "NW", "SE">>

lance_b == <<"N", "S", "NE", "SW">>

PieceTypes == {"Pawn", "King", "Queen", "Knight", "Lance", "Chariot"}

Colors == {"White", "Black"}

opposite(color) == IF color = "White" THEN "Black" ELSE "White"

\* Option<Piece>::None, Option<PieceType>::None, Option<LanceVariant>::None
NoPiece == [piece_type |-> "None", color |-> "None", variant |-> "None"]

\* Piece::new
PieceNew(piece_type, color) ==
    [piece_type |-> piece_type, color |-> color, variant |-> "None"]

\* Piece::lance
PieceLance(color, variant) ==
    [piece_type |-> "Lance", color |-> color, variant |-> variant]

\* Piece::directions
directions(piece) ==
    CASE piece.piece_type \in {"King", "Queen"} -> DirAll
      [] piece.piece_type = "Chariot" -> diagonals
      [] piece.piece_type = "Lance" ->
            IF piece.variant = "A" THEN lance_a ELSE lance_b
      [] OTHER -> <<>>

is_slider(piece) == piece.piece_type \in {"Queen", "Lance", "Chariot"}

BOARD_RADIUS == 4

is_promotion_zone(coord, color) ==
    LET target_r == IF color = "White" THEN 0 - BOARD_RADIUS ELSE BOARD_RADIUS
    IN  coord.r = target_r

PROMOTION_TARGETS == <<"Queen", "Chariot", "Lance", "Knight">>

\* Move::new, with_capture, with_promotion
MoveNew(piece, from, to) ==
    [from |-> from, to |-> to, piece |-> piece,
     captured |-> NoPiece, promotion |-> "None"]

with_capture(mv, captured) == [mv EXCEPT !.captured = captured]

with_promotion(mv, promotion) == [mv EXCEPT !.promotion = promotion]

NoMove == [from |-> NoCoord, to |-> NoCoord, piece |-> NoPiece,
           captured |-> NoPiece, promotion |-> "None"]

\* ------------------------------------------------------------------------
\* board.rs
\* ------------------------------------------------------------------------

is_valid_cell(coord) ==
    Max2(Max2(Abs(coord.q), Abs(coord.r)), Abs(s_of(coord))) <= BOARD_RADIUS

\* get_all_cells as a set; the source's Vec is in (q, r) ascending order.
AllCells ==
    {c \in {HexCoord(q, r) : q \in (0 - BOARD_RADIUS)..BOARD_RADIUS,
                             r \in (0 - BOARD_RADIUS)..BOARD_RADIUS} :
        is_valid_cell(c)}

add_direction(coord, direction) ==
    LET d == delta(direction) IN HexCoord(coord.q + d[1], coord.r + d[2])

\* get_neighbor returns NoCoord for None.
get_neighbor(coord, direction) ==
    LET neighbor == add_direction(coord, direction)
    IN  IF is_valid_cell(neighbor) THEN neighbor ELSE NoCoord

hex_distance(a, b) ==
    Max2(Max2(Abs(a.q - b.q), Abs(a.r - b.r)), Abs(s_of(a) - s_of(b)))

RECURSIVE ray_walk(_, _)
ray_walk(current, direction) ==
    LET next == add_direction(current, direction)
    IN  IF ~is_valid_cell(next) THEN <<>>
        ELSE <<next>> \o ray_walk(next, direction)

\* The rays from the cells of the board, computed once.
RayTable == [c \in AllCells |-> [d \in Directions |-> ray_walk(c, d)]]

get_ray(start, direction) ==
    IF start \in AllCells THEN RayTable[start][direction]
    ELSE ray_walk(start, direction)

KNIGHT_OFFSETS ==
    << <<1, -2>>, <<-1, -1>>, <<2, -1>>, <<1, 1>>, <<-1, 2>>, <<-2, 1>> >>

knight_targets_of(from) ==
    LET all == [i \in 1..6 |->
                  HexCoord(from.q + KNIGHT_OFFSETS[i][1],
                           from.r + KNIGHT_OFFSETS[i][2])]
        OnBoard(c) == is_valid_cell(c)
    IN  SelectSeq(all, OnBoard)

KnightTable == [c \in AllCells |-> knight_targets_of(c)]

get_knight_targets(from) ==
    IF from \in AllCells THEN KnightTable[from] ELSE knight_targets_of(from)

\* ------------------------------------------------------------------------
\* moves.rs
\* ------------------------------------------------------------------------

get_forward_direction(color) == IF color = "White" THEN "N" ELSE "S"

\* get_pawn_capture_directions without the capture straight ahead.
get_pawn_capture_directions_diagonal(color) ==
    IF color = "White" THEN <<"NE", "NW">> ELSE <<"SE", "SW">>

get_pawn_capture_directions(color) ==
    IF color = "White" THEN <<"N", "NE", "NW">> ELSE <<"S", "SE", "SW">>

get_piece_at(board, coord) ==
    IF to_key(coord) \in DOMAIN board THEN board[to_key(coord)] ELSE NoPiece

is_occupied(board, coord) == to_key(coord) \in DOMAIN board

has_enemy(board, coord, color) ==
    /\ to_key(coord) \in DOMAIN board
    /\ board[to_key(coord)].color # color

has_friendly(board, coord, color) ==
    /\ to_key(coord) \in DOMAIN board
    /\ board[to_key(coord)].color = color

\* The set of the elements of a sequence.
Range(seq) == {seq[i] : i \in 1..Len(seq)}

\* Concatenation of a sequence of sequences.
RECURSIVE Flatten(_)
Flatten(ss) == IF ss = <<>> THEN <<>> ELSE Head(ss) \o Flatten(Tail(ss))

\* The four promotion moves of a pawn move, in PROMOTION_TARGETS order.
promotions_of(mv) == [i \in 1..Len(PROMOTION_TARGETS) |->
                        with_promotion(mv, PROMOTION_TARGETS[i])]

generate_pawn_moves(board, piece, from) ==
    LET forward == get_neighbor(from, get_forward_direction(piece.color))
        capture_directions == get_pawn_capture_directions(piece.color)
        fwd == IF forward # NoCoord /\ ~is_occupied(board, forward)
               THEN IF is_promotion_zone(forward, piece.color)
                    THEN promotions_of(MoveNew(piece, from, forward))
                    ELSE <<MoveNew(piece, from, forward)>>
               ELSE <<>>
        cap(dir) ==
            LET target == get_neighbor(from, dir)
            IN  IF target # NoCoord /\ has_enemy(board, target, piece.color)
                THEN LET m == with_capture(MoveNew(piece, from, target),
                                           get_piece_at(board, target))
                     IN  IF is_promotion_zone(target, piece.color)
                         THEN promotions_of(m)
                         ELSE <<m>>
                ELSE <<>>
    IN  fwd \o Flatten([i \in 1..Len(capture_directions) |->
                          cap(capture_directions[i])])

\* A step or leap to target: the move, with the piece captured there if any.
move_to(board, piece, from, target) ==
    IF is_occupied(board, target)
    THEN with_capture(MoveNew(piece, from, target), get_piece_at(board, target))
    ELSE MoveNew(piece, from, target)

generate_king_moves(board, piece, from) ==
    LET step(dir) ==
            LET target == get_neighbor(from, dir)
            IN  IF target # NoCoord /\ ~has_friendly(board, target, piece.color)
                THEN <<move_to(board, piece, from, target)>>
                ELSE <<>>
    IN  Flatten([i \in 1..Len(DirAll) |-> step(DirAll[i])])

generate_knight_moves(board, piece, from) ==
    LET targets == get_knight_targets(from)
        leap(target) ==
            IF ~has_friendly(board, target, piece.color)
            THEN <<move_to(board, piece, from, target)>>
            ELSE <<>>
    IN  Flatten([i \in 1..Len(targets) |-> leap(targets[i])])

\* The walk of one ray: stop before a friendly piece, capture and stop at an
\* enemy piece.
RECURSIVE slide(_, _, _, _, _)
slide(board, piece, from, ray, i) ==
    IF i > Len(ray) THEN <<>>
    ELSE IF has_friendly(board, ray[i], piece.color) THEN <<>>
    ELSE IF is_occupied(board, ray[i])
         THEN <<with_capture(MoveNew(piece, from, ray[i]),
                             get_piece_at(board, ray[i]))>>
         ELSE <<MoveNew(piece, from, ray[i])>>
                \o slide(board, piece, from, ray, i + 1)

generate_slider_moves(board, piece, from) ==
    LET dirs == directions(piece)
    IN  Flatten([i \in 1..Len(dirs) |->
                   slide(board, piece, from, get_ray(from, dirs[i]), 1)])

generate_pseudo_legal_moves(board, piece, from) ==
    CASE piece.piece_type = "Pawn" -> generate_pawn_moves(board, piece, from)
      [] piece.piece_type = "King" -> generate_king_moves(board, piece, from)
      [] piece.piece_type = "Knight" -> generate_knight_moves(board, piece, from)
      [] OTHER -> generate_slider_moves(board, piece, from)

\* ------------------------------------------------------------------------
\* Iteration order of a HashMap.  The source iterates boards in the order
\* of the map's hasher, which is unspecified; hash_seed selects one of a few
\* orders (ascending keys, descending keys, a scrambled order).
\* ------------------------------------------------------------------------

NumSeeds == 3

\* A key as a number: its two fields in base 2 * BOARD_RADIUS + 1.
key_code(key) ==
    (key[1] + BOARD_RADIUS) * (2 * BOARD_RADIUS + 1) + key[2] + BOARD_RADIUS

scramble(code) == ((code * 151) % 1009) * 1400000 + code

\* The elements in the order of their places, from the pairs of an element
\* and its place.
in_places(placed) ==
    [i \in 1..Cardinality(placed) |-> (CHOOSE p \in placed : p[2] = i)[1]]

\* The pairs of an element and its place, from the pairs of an element and
\* its rank.
places(ranked) ==
    {<<p[1], 1 + Cardinality({q \in ranked : q[2] < p[2]})>> : p \in ranked}

\* A set in its iteration order, from the rank of every element; rank is a
\* function on the set.
sort_by(set, rank) == in_places(places({<<x, rank[x]>> : x \in set}))

key_rank(key) ==
    CASE hash_seed = 1 -> key_code(key)
      [] hash_seed = 2 -> 0 - key_code(key)
      [] OTHER -> scramble(key_code(key))

first_key(keys) == CHOOSE k \in keys : \A j \in keys : key_rank(k) <= key_rank(j)

RECURSIVE iter_keys(_)
iter_keys(keys) ==
    IF keys = {} THEN <<>>
    ELSE LET k == first_key(keys) IN <<k>> \o iter_keys(keys \ {k})

\* ------------------------------------------------------------------------
\* moves.rs: check detection, legal moves, validation
\* ------------------------------------------------------------------------

find_king(board, color) ==
    LET kings == {k \in DOMAIN board :
                    board[k].piece_type = "King" /\ board[k].color = color}
    IN  IF kings = {} THEN NoCoord ELSE from_key(first_key(kings))

\* The first piece met on a ray from the target, if any, decides the ray.
RECURSIVE ray_attacked(_, _, _, _, _)
ray_attacked(board, ray, i, dir, by_color) ==
    IF i > Len(ray) THEN FALSE
    ELSE IF is_occupied(board, ray[i])
         THEN LET piece == get_piece_at(board, ray[i])
              IN  IF piece.color # by_color THEN FALSE
                  ELSE /\ is_slider(piece)
                       /\ \E j \in 1..Len(directions(piece)) :
                             directions(piece)[j] = opposite_dir(dir)
         ELSE ray_attacked(board, ray, i + 1, dir, by_color)

is_attacked(board, target, by_color) ==
    LET pawn_capture_directions == get_pawn_capture_directions(by_color)
        holds(pos, piece_type) ==
            /\ pos # NoCoord
            /\ is_occupied(board, pos)
            /\ get_piece_at(board, pos).piece_type = piece_type
            /\ get_piece_at(board, pos).color = by_color
    IN  \/ \E i \in 1..Len(pawn_capture_directions) :
              holds(get_neighbor(target,
                                 opposite_dir(pawn_capture_directions[i])),
                    "Pawn")
        \/ \E i \in 1..Len(DirAll) :
              holds(get_neighbor(target, DirAll[i]), "King")
        \/ \E i \in 1..Len(get_knight_targets(target)) :
              holds(get_knight_targets(target)[i], "Knight")
        \/ \E i \in 1..Len(DirAll) :
              ray_attacked(board, get_ray(target, DirAll[i]), 1, DirAll[i],
                           by_color)

is_in_check(board, color) ==
    LET king_pos == find_king(board, color)
    IN  IF king_pos # NoCoord
        THEN is_attacked(board, king_pos, opposite(color))
        ELSE FALSE

apply_move(board, mv) ==
    LET piece_to_place ==
            IF mv.promotion # "None"
            THEN PieceNew(mv.promotion, mv.piece.color)
            ELSE mv.piece
    IN  [k \in (DOMAIN board \ {to_key(mv.from)}) \cup {to_key(mv.to)} |->
            IF k = to_key(mv.to) THEN piece_to_place ELSE board[k]]

\* Variant: the pseudo-legal moves, with no check filter.
generate_legal_moves_unfiltered(board, piece, from) ==
    generate_pseudo_legal_moves(board, piece, from)

generate_legal_moves(board, piece, from) ==
    LET pseudo_legal == generate_pseudo_legal_moves(board, piece, from)
        keeps(mv) == ~is_in_check(apply_move(board, mv), piece.color)
    IN  SelectSeq(pseudo_legal, keeps)

generate_all_legal_moves(board, color) ==
    LET keys == iter_keys({k \in DOMAIN board : board[k].color = color})
    IN  Flatten([i \in 1..Len(keys) |->
                   generate_legal_moves(board, board[keys[i]],
                                        from_key(keys[i]))])

\* Variant: a validation that never reports a capture.
MoveValidation_no_capture(legal, reason, capture) ==
    [legal |-> legal, reason |-> reason, capture |-> FALSE]

\* MoveValidation; reason "None" stands for Option::None.
MoveValidation(legal, reason, capture) ==
    [legal |-> legal, reason |-> reason, capture |-> capture]

validate_move(board, from, to, turn) ==
    IF ~is_occupied(board, from)
    THEN MoveValidation(FALSE, "noPieceAtSource", FALSE)
    ELSE LET piece == get_piece_at(board, from) IN
    IF piece.color # turn
    THEN MoveValidation(FALSE, "notYourPiece", FALSE)
    ELSE IF ~is_valid_cell(to)
    THEN MoveValidation(FALSE, "invalidDestination", FALSE)
    ELSE LET legal_moves == generate_legal_moves(board, piece, from)
             matching == {i \in 1..Len(legal_moves) : legal_moves[i].to = to}
         IN
    IF matching # {}
    THEN LET i == CHOOSE i \in matching : \A j \in matching : i <= j
         IN  MoveValidation(TRUE, "None", legal_moves[i].captured # NoPiece)
    ELSE LET pseudo_legal == generate_pseudo_legal_moves(board, piece, from) IN
    IF \E i \in 1..Len(pseudo_legal) : pseudo_legal[i].to = to
    THEN MoveValidation(FALSE, "movesIntoCheck", FALSE)
    ELSE MoveValidation(FALSE, "illegalMove", FALSE)

\* ------------------------------------------------------------------------
\* ai.rs: evaluation
\* ------------------------------------------------------------------------

get_piece_value(piece_type) ==
    CASE piece_type = "Pawn" -> 100
      [] piece_type = "Knight" -> 300
      [] piece_type = "Lance" -> 450
      [] piece_type = "Chariot" -> 450
      [] piece_type = "Queen" -> 900
      [] OTHER -> 0

CHECKMATE_VALUE == 100000

STALEMATE_VALUE == 0

get_centrality_bonus(coord) ==
    (BOARD_RADIUS - hex_distance(coord, HexCoord(0, 0))) * 5

\* progress * progress * 50.0 truncated, with progress a multiple of
\* 1 / total_distance.
get_pawn_advancement_bonus(coord, color) ==
    LET target_r == IF color = "White" THEN 0 - BOARD_RADIUS ELSE BOARD_RADIUS
        start_r == IF color = "White" THEN BOARD_RADIUS ELSE 0 - BOARD_RADIUS
        total_distance == Abs(target_r - start_r)
        distance_from_start == Abs(coord.r - start_r)
    IN  (distance_from_start * distance_from_start * 50)
            \div (total_distance * total_distance)

get_piece_position_bonus(piece, coord) ==
    get_centrality_bonus(coord)
        + (IF piece.piece_type = "Pawn"
           THEN get_pawn_advancement_bonus(coord, piece.color) ELSE 0)

RECURSIVE material_sum(_, _)
material_sum(board, keys) ==
    IF keys = {} THEN 0
    ELSE LET k == CHOOSE x \in keys : TRUE
             piece == board[k]
             total_value == get_piece_value(piece.piece_type)
                              + get_piece_position_bonus(piece, from_key(k))
         IN  (IF piece.color = "White" THEN total_value ELSE 0 - total_value)
                + material_sum(board, keys \ {k})

evaluate_material(board) == material_sum(board, DOMAIN board)

evaluate_mobility(board, color) ==
    Len(generate_all_legal_moves(board, color)) * 2

evaluate_position(board) ==
    evaluate_material(board)
        + (evaluate_mobility(board, "White") - evaluate_mobility(board, "Black"))
        - (IF is_in_check(board, "White") THEN 50 ELSE 0)
        + (IF is_in_check(board, "Black") THEN 50 ELSE 0)

\* ------------------------------------------------------------------------
\* ai.rs: transposition table
\* ------------------------------------------------------------------------

TTEntry(score, depth, entry_type, best_move) ==
    [score |-> score, depth |-> depth, entry_type |-> entry_type,
     best_move |-> best_move]

\* Option<&TTEntry>::None
NoEntry == TTEntry(0, -1, "None", NoMove)

\* TranspositionTable::new
TranspositionTableNew(max_size) ==
    [table |-> [h \in {} |-> NoEntry], max_size |-> max_size]

\* The string "q,r:ctV" of one piece, as the tuple of its fields.
hash_piece(key, piece) ==
    << key[1], key[2],
       IF piece.color = "White" THEN "w" ELSE "b",
       CASE piece.piece_type = "Pawn" -> "p"
         [] piece.piece_type = "Knight" -> "n"
         [] piece.piece_type = "Lance" -> "l"
         [] piece.piece_type = "Chariot" -> "c"
         [] piece.piece_type = "Queen" -> "q"
         [] OTHER -> "k",
       IF piece.variant = "None" THEN "" ELSE piece.variant >>

\* generate_hash: the sorted, joined piece strings, as the set of them.  The
\* side to move is no part of it.
generate_hash(board) == {hash_piece(k, board[k]) : k \in DOMAIN board}

RECURSIVE hash_code(_)
hash_code(hash) ==
    IF hash = {} THEN 0
    ELSE LET e == CHOOSE x \in hash : TRUE
         IN  (key_code(<<e[1], e[2]>>) + 1)
                * (IF e[4] = "k" THEN IF e[3] = "w" THEN 1 ELSE 90 ELSE 8100)
                + hash_code(hash \ {e})

hash_rank(hash) ==
    CASE hash_seed = 1 -> hash_code(hash)
      [] hash_seed = 2 -> 0 - hash_code(hash)
      [] OTHER -> scramble(hash_code(hash))

\* The first n keys of the table in the iteration order of the map.
RECURSIVE take_keys(_, _)
take_keys(hashes, n) ==
    IF n = 0 \/ hashes = {} THEN {}
    ELSE LET h == CHOOSE x \in hashes :
                     \A y \in hashes : hash_rank(x) <= hash_rank(y)
         IN  {h} \cup take_keys(hashes \ {h}, n - 1)

\* TranspositionTable::probe
probe(table, board) ==
    IF generate_hash(board) \in DOMAIN table.table
    THEN table.table[generate_hash(board)]
    ELSE NoEntry

\* Variant: a store that replaces only entries of equal or greater depth.
store_prefers_shallow(table, board, depth, score, entry_type, best_move) ==
    LET keys_to_remove ==
            IF Cardinality(DOMAIN table.table) >= table.max_size
            THEN take_keys(DOMAIN table.table, table.max_size \div 2)
            ELSE {}
        kept == [h \in DOMAIN table.table \ keys_to_remove |-> table.table[h]]
        hash == generate_hash(board)
        replace == hash \notin DOMAIN kept \/ kept[hash].depth >= depth
    IN  IF replace
        THEN [table EXCEPT !.table =
                [h \in DOMAIN kept \cup {hash} |->
                   IF h = hash
                   THEN TTEntry(score, depth, entry_type, best_move)
                   ELSE kept[h]]]
        ELSE [table EXCEPT !.table = kept]

\* TranspositionTable::store
store(table, board, depth, score, entry_type, best_move) ==
    LET keys_to_remove ==
            IF Cardinality(DOMAIN table.table) >= table.max_size
            THEN take_keys(DOMAIN table.table, table.max_size \div 2)
            ELSE {}
        kept == [h \in DOMAIN table.table \ keys_to_remove |-> table.table[h]]
        hash == generate_hash(board)
        replace == hash \notin DOMAIN kept \/ kept[hash].depth <= depth
    IN  IF replace
        THEN [table EXCEPT !.table =
                [h \in DOMAIN kept \cup {hash} |->
                   IF h = hash
                   THEN TTEntry(score, depth, entry_type, best_move)
                   ELSE kept[h]]]
        ELSE [table EXCEPT !.table = kept]

\* TranspositionTable::clear
clear(table) == [table EXCEPT !.table = [h \in {} |-> NoEntry]]

\* TranspositionTable::size
size(table) == Cardinality(DOMAIN table.table)

\* ------------------------------------------------------------------------
\* ai.rs: move ordering
\* ------------------------------------------------------------------------

estimate_move_value(mv) ==
    (IF mv.captured # NoPiece
     THEN 10000 + get_piece_value(mv.captured.piece_type) * 10
            - get_piece_value(mv.piece.piece_type)
     ELSE 0)
    + (IF mv.promotion # "None"
       THEN 9000 + get_piece_value(mv.promotion) - get_piece_value("Pawn")
       ELSE 0)
    + get_centrality_bonus(mv.to)

\* A stable insertion: mv goes behind the moves of at least its value.
RECURSIVE insert_move(_, _)
insert_move(sorted, mv) ==
    IF sorted = <<>> THEN <<mv>>
    ELSE IF estimate_move_value(Head(sorted)) >= estimate_move_value(mv)
         THEN <<Head(sorted)>> \o insert_move(Tail(sorted), mv)
         ELSE <<mv>> \o sorted

RECURSIVE order_from(_, _, _)
order_from(moves, i, sorted) ==
    IF i > Len(moves) THEN sorted
    ELSE order_from(moves, i + 1, insert_move(sorted, moves[i]))

\* order_moves: a stable sort by estimate, best first.
order_moves(moves) == order_from(moves, 1, <<>>)

\* The ordering of alpha_beta and find_best_move: the best move of the
\* table's entry first, if it is among the moves, and the rest ordered.
order_with_tt(table, board, moves) ==
    LET tt_best_move == probe(table, board).best_move
    IN  IF tt_best_move # NoMove
        THEN LET found == {i \in 1..Len(moves) :
                             /\ moves[i].from = tt_best_move.from
                             /\ moves[i].to = tt_best_move.to}
                 swapped ==
                     IF found = {} THEN moves
                     ELSE LET idx == CHOOSE i \in found :
                                        \A j \in found : i <= j
                          IN  [i \in 1..Len(moves) |->
                                 IF i = 1 THEN moves[idx]
                                 ELSE IF i = idx THEN moves[1]
                                 ELSE moves[i]]
             IN  <<Head(swapped)>> \o order_moves(Tail(swapped))
        ELSE order_moves(moves)

\* ------------------------------------------------------------------------
\* ai.rs: quiescence search
\* ------------------------------------------------------------------------

MAX_QUIESCENCE_DEPTH == 8

is_tactical_move(mv) == mv.captured # NoPiece \/ mv.promotion # "None"

generate_tactical_moves(board, color) ==
    SelectSeq(generate_all_legal_moves(board, color), is_tactical_move)

\* quiescence_search; quiescence_loop is its loop over the tactical moves
\* from the i-th on, quiescence_from what it does once stand_pat is computed.
RECURSIVE quiescence_search(_, _, _, _, _)
RECURSIVE quiescence_from(_, _, _, _, _, _)
RECURSIVE quiescence_loop(_, _, _, _, _, _, _)
quiescence_loop(board, moves, i, alpha, beta, maximizing, q_depth) ==
    IF i > Len(moves) THEN IF maximizing THEN alpha ELSE beta
    ELSE LET score == quiescence_search(apply_move(board, moves[i]), alpha,
                                        beta, ~maximizing, q_depth + 1)
         IN  IF maximizing
             THEN IF score >= beta THEN beta
                  ELSE quiescence_loop(board, moves, i + 1,
                                       Max2(alpha, score), beta, maximizing,
                                       q_depth)
             ELSE IF score <= alpha THEN alpha
                  ELSE quiescence_loop(board, moves, i + 1, alpha,
                                       Min2(beta, score), maximizing, q_depth)

quiescence_from(board, stand_pat, alpha, beta, maximizing, q_depth) ==
    IF maximizing /\ stand_pat >= beta THEN beta
    ELSE IF ~maximizing /\ stand_pat <= alpha THEN alpha
    ELSE IF q_depth >= MAX_QUIESCENCE_DEPTH THEN stand_pat
    ELSE
    LET alpha1 == IF maximizing THEN Max2(alpha, stand_pat) ELSE alpha
        beta1 == IF maximizing THEN beta ELSE Min2(beta, stand_pat)
        color == IF maximizing THEN "White" ELSE "Black"
        tactical_moves == generate_tactical_moves(board, color)
    IN  IF tactical_moves = <<>> THEN stand_pat
        ELSE quiescence_loop(board, order_moves(tactical_moves), 1, alpha1,
                             beta1, maximizing, q_depth)

quiescence_search(board, alpha, beta, maximizing, q_depth) ==
    quiescence_from(board, evaluate_position(board), alpha, beta, maximizing,
                    q_depth)

\* ------------------------------------------------------------------------
\* ai.rs: alpha-beta search.  An activation of alpha_beta or find_best_move
\* is a frame on the stack; idx is the position of its loop over moves.
\* ------------------------------------------------------------------------

Frame(kind, board, depth, alpha, beta, original_alpha, entry_beta, maximizing, use_quiescence, moves, best_eval, best_move) ==
    [kind |-> kind, board |-> board, depth |-> depth, alpha |-> alpha,
     beta |-> beta, original_alpha |-> original_alpha,
     entry_beta |-> entry_beta, maximizing |-> maximizing,
     use_quiescence |-> use_quiescence, moves |-> moves, idx |-> 1,
     best_eval |-> best_eval, best_move |-> best_move, cut |-> FALSE]

\* What a call returns at once, or the frame it runs its loop in.
Returned(value) == [kind |-> "value", value |-> value]

\* alpha_beta up to its loop: the probe of the table, the terminal node, the
\* leaf, the ordering of the moves.
alpha_beta_enter(table, board, depth, alpha, beta, maximizing, use_quiescence) ==
    LET original_alpha == alpha
        color == IF maximizing THEN "White" ELSE "Black"
        in_check == is_in_check(board, color)
        tt_entry == probe(table, board)
        hit == tt_entry # NoEntry /\ tt_entry.depth >= depth
        alpha1 == IF hit /\ tt_entry.entry_type = "Lower"
                  THEN Max2(alpha, tt_entry.score) ELSE alpha
        beta1 == IF hit /\ tt_entry.entry_type = "Upper"
                 THEN Min2(beta, tt_entry.score) ELSE beta
    IN  IF hit /\ tt_entry.entry_type = "Exact" THEN Returned(tt_entry.score)
        ELSE IF hit /\ alpha1 >= beta1 THEN Returned(tt_entry.score)
        ELSE
        LET moves == generate_all_legal_moves(board, color) IN
        IF moves = <<>>
        THEN IF in_check
             THEN Returned(IF maximizing THEN (0 - CHECKMATE_VALUE) + depth
                           ELSE CHECKMATE_VALUE - depth)
             ELSE Returned(STALEMATE_VALUE)
        ELSE IF depth = 0
        THEN IF use_quiescence
             THEN Returned(quiescence_search(board, alpha1, beta1,
                                             maximizing, 0))
             ELSE Returned(evaluate_position(board))
        ELSE Frame("alpha_beta", board, depth, alpha1, beta1, original_alpha,
                   beta, maximizing, use_quiescence,
                   order_with_tt(table, board, moves),
                   IF maximizing THEN (0 - CHECKMATE_VALUE) - 1
                   ELSE CHECKMATE_VALUE + 1,
                   NoMove)

\* The rest of one round of the loop, once the call on moves[idx] has
\* returned eval_score.  The loop of find_best_move has no cutoff.
absorb(frame, eval_score) ==
    LET better == IF frame.maximizing THEN eval_score > frame.best_eval
                  ELSE eval_score < frame.best_eval
        alpha == IF frame.maximizing THEN Max2(frame.alpha, eval_score)
                 ELSE frame.alpha
        beta == IF frame.maximizing THEN frame.beta
                ELSE Min2(frame.beta, eval_score)
    IN  [frame EXCEPT
           !.best_eval = IF better THEN eval_score ELSE @,
           !.best_move = IF better THEN frame.moves[frame.idx] ELSE @,
           !.alpha = alpha,
           !.beta = beta,
           !.cut = frame.kind = "alpha_beta" /\ beta <= alpha,
           !.idx = @ + 1]

\* The type of the entry alpha_beta stores after its loop.
store_type(frame) ==
    IF frame.maximizing
    THEN IF frame.best_eval <= frame.original_alpha THEN "Upper"
         ELSE IF frame.best_eval >= frame.beta THEN "Lower"
         ELSE "Exact"
    ELSE IF frame.best_eval >= frame.beta THEN "Lower"
         ELSE IF frame.best_eval <= frame.original_alpha THEN "Upper"
         ELSE "Exact"

\* find_best_move up to its loop; no frame when there is no legal move.
find_best_move_enter(table, board, color, depth, use_quiescence) ==
    LET moves == generate_all_legal_moves(board, color)
        maximizing == color = "White"
        ordered == order_with_tt(table, board, moves)
    IN  IF moves = <<>> THEN Returned(0)
        ELSE Frame("find_best_move", board, depth, (0 - CHECKMATE_VALUE) - 1,
                   CHECKMATE_VALUE + 1, (0 - CHECKMATE_VALUE) - 1,
                   CHECKMATE_VALUE + 1, maximizing, use_quiescence, ordered,
                   IF maximizing THEN (0 - CHECKMATE_VALUE) - 1
                   ELSE CHECKMATE_VALUE + 1,
                   ordered[1])

SearchResult(best_move, score) == [best_move |-> best_move, score |-> score]

\* No search has finished yet.
NoResult == SearchResult(NoMove, 0)

\* The entry alpha_beta stored last, with the window and the side of its node.
Stored(maximizing, entry_alpha, entry_beta, depth, score, entry_type) ==
    [maximizing |-> maximizing, entry_alpha |-> entry_alpha,
     entry_beta |-> entry_beta, depth |-> depth, score |-> score,
     entry_type |-> entry_type]

NoStore == Stored(FALSE, 0, 0, -1, 0, "None")

\* The activation of get_ai_move (difficulty is the one it was called with)
\* or of find_best_move_iterative alone (difficulty "None").  op is the
\* function that yields the result; depth is the depth of the last
\* find_best_move call made, checks the values of elapsed read at the head of
\* the loop of find_best_move_iterative, in order, and returned tells that
\* the activation has returned.
Activation(op, difficulty, board, color, max_depth, time_limit_ms, use_quiescence, depth, checks, best_result, max_depth_reached, returned) ==
    [op |-> op, difficulty |-> difficulty, board |-> board, color |-> color, max_depth |-> max_depth,
     time_limit_ms |-> time_limit_ms, use_quiescence |-> use_quiescence,
     depth |-> depth, checks |-> checks, best_result |-> best_result,
     max_depth_reached |-> max_depth_reached, returned |-> returned]

NoActivation ==
    Activation("None", "None", [k \in {} |-> NoPiece], "None", 0, 0, FALSE, 0,
               <<>>,
               NoResult, 0, FALSE)

\* Variant: a time test that lets one more millisecond pass.
time_exceeded_late(elapsed, time_limit_ms) == elapsed > time_limit_ms + 1

\* find_best_move_iterative: if elapsed > time_limit_ms { break; }
time_exceeded(elapsed, time_limit_ms) == elapsed > time_limit_ms

\* find_best_move_iterative: best_result after the find_best_move call of
\* the activation has returned search_result.
take_result(act, search_result) ==
    IF act.depth = 1
    THEN [act EXCEPT !.best_result = search_result, !.max_depth_reached = 1]
    ELSE IF search_result.best_move # NoMove
    THEN [act EXCEPT !.best_result = search_result, !.max_depth_reached = act.depth]
    ELSE act

\* ------------------------------------------------------------------------
\* tablebase.rs
\* ------------------------------------------------------------------------

\* board.rs: get_all_cells, in the order of the source
get_all_cells ==
    LET width == 2 * BOARD_RADIUS + 1
        column(qi) == SelectSeq([ri \in 1..width |->
                                   HexCoord(qi - 1 - BOARD_RADIUS,
                                            ri - 1 - BOARD_RADIUS)],
                                is_valid_cell)
    IN  Flatten([qi \in 1..width |-> column(qi)])

SerializedMove(from_q, from_r, to_q, to_r, promotion) ==
    [from_q |-> from_q, from_r |-> from_r, to_q |-> to_q, to_r |-> to_r,
     promotion |-> promotion]

\* Option<SerializedMove>::None
NoSerializedMove == SerializedMove(99, 99, 99, 99, "None")

from_move(mv) ==
    SerializedMove(mv.from.q, mv.from.r, mv.to.q, mv.to.r, mv.promotion)

TablebaseEntry(wdl, dtm, best_move) ==
    [wdl |-> wdl, dtm |-> dtm, best_move |-> best_move]

TablebaseConfig(stronger_side, weaker_side, name) ==
    [stronger_side |-> stronger_side, weaker_side |-> weaker_side,
     name |-> name]

\* Option<TablebaseConfig>::None
NoConfig == TablebaseConfig(<<>>, <<>>, <<>>)

PieceTablebase(name, entries) == [name |-> name, entries |-> entries]

\* Option<PieceTablebase>::None
NoTablebase == PieceTablebase(<<>>, [k \in {} |-> 0])

TablebaseProbeResult(found, entry, tablebase_name) ==
    [found |-> found, entry |-> entry, tablebase_name |-> tablebase_name]

\* Option<TablebaseEntry>::None
NoTablebaseEntry == TablebaseEntry("None", 0, NoSerializedMove)

NotFound == TablebaseProbeResult(FALSE, NoTablebaseEntry, <<>>)

get_tablebase(loaded, name) ==
    IF name \in DOMAIN loaded THEN loaded[name] ELSE NoTablebase

set_tablebase(loaded, tablebase) ==
    [n \in DOMAIN loaded \cup {tablebase.name} |->
       IF n = tablebase.name THEN tablebase ELSE loaded[n]]

\* The key "<hash>-w" or "<hash>-b", as the pair of its two parts.
get_tablebase_key(board, side_to_move) ==
    <<generate_hash(board), IF side_to_move = "White" THEN "w" ELSE "b">>

piece_abbrev(piece_type) ==
    CASE piece_type = "Queen" -> "Q"
      [] piece_type = "Lance" -> "L"
      [] piece_type = "Chariot" -> "C"
      [] piece_type = "Knight" -> "N"
      [] piece_type = "Pawn" -> "P"
      [] OTHER -> "K"

\* The piece types in the order of their abbreviations.
ByAbbrev == <<"Chariot", "King", "Lance", "Knight", "Pawn", "Queen">>

\* The piece types of the pieces of color other than the king, sorted by
\* abbreviation.
sorted_pieces(board, color) ==
    LET count(piece_type) ==
            Cardinality({k \in DOMAIN board :
                           /\ board[k].color = color
                           /\ board[k].piece_type = piece_type})
    IN  Flatten([i \in 1..Len(ByAbbrev) |->
                   IF ByAbbrev[i] = "King" THEN <<>>
                   ELSE [j \in 1..count(ByAbbrev[i]) |-> ByAbbrev[i]]])

\* A configuration name, as the sequence of its letters.
config_name(stronger_sorted, weaker_sorted) ==
    <<"K">> \o [i \in 1..Len(stronger_sorted) |->
                  piece_abbrev(stronger_sorted[i])]
            \o <<"v", "K">>
            \o [i \in 1..Len(weaker_sorted) |-> piece_abbrev(weaker_sorted[i])]

detect_configuration(board) ==
    LET white_pieces == sorted_pieces(board, "White")
        black_pieces == sorted_pieces(board, "Black")
        white_stronger == Len(white_pieces) >= Len(black_pieces)
        stronger_sorted == IF white_stronger THEN white_pieces
                           ELSE black_pieces
        weaker_sorted == IF white_stronger THEN black_pieces ELSE white_pieces
        total_pieces == 2 + Len(stronger_sorted) + Len(weaker_sorted)
    IN  IF white_pieces = <<>> /\ black_pieces = <<>>
        THEN TablebaseConfig(<<>>, <<>>, <<"K", "v", "K">>)
        ELSE IF total_pieces > 5 THEN NoConfig
        ELSE IF weaker_sorted # <<>> THEN NoConfig
        ELSE TablebaseConfig(stronger_sorted, weaker_sorted,
                             config_name(stronger_sorted, weaker_sorted))

is_illegal_position(board, side_to_move) ==
    is_in_check(board, opposite(side_to_move))

\* generate_all_positions over the cells all_cells: the positions
\* (board, side to move) in the order of the loops.
generate_all_positions(config, all_cells) ==
    LET sides == <<"White", "Black">>
        kings(white_king_pos, black_king_pos) ==
            [k \in {to_key(white_king_pos), to_key(black_king_pos)} |->
               IF k = to_key(white_king_pos) THEN PieceNew("King", "White")
               ELSE PieceNew("King", "Black")]
        legal(board, side_to_move) ==
            IF ~is_illegal_position(board, side_to_move)
            THEN << <<board, side_to_move>> >> ELSE <<>>
        with_piece(board, piece, piece_pos) ==
            [k \in DOMAIN board \cup {to_key(piece_pos)} |->
               IF k = to_key(piece_pos) THEN piece ELSE board[k]]
        variants(piece_type) ==
            IF piece_type = "Lance"
            THEN <<PieceLance("White", "A"), PieceLance("White", "B")>>
            ELSE <<PieceNew(piece_type, "White")>>
        pair(white_king_pos, black_king_pos) ==
            IF white_king_pos = black_king_pos
               \/ hex_distance(white_king_pos, black_king_pos) <= 1
            THEN <<>>
            ELSE
            LET free(c) == c # white_king_pos /\ c # black_king_pos
                remaining_cells == SelectSeq(all_cells, free)
                board == kings(white_king_pos, black_king_pos)
            IN  IF config.stronger_side = <<>>
                THEN Flatten([si \in 1..2 |-> legal(board, sides[si])])
                ELSE IF Len(config.stronger_side) = 1
                THEN LET pieces == variants(config.stronger_side[1])
                     IN  Flatten([pi \in 1..Len(remaining_cells) |->
                           Flatten([si \in 1..2 |->
                             Flatten([vi \in 1..Len(pieces) |->
                               legal(with_piece(board, pieces[vi],
                                                remaining_cells[pi]),
                                     sides[si])])])])
                ELSE <<>>
    IN  Flatten([wi \in 1..Len(all_cells) |->
          Flatten([bi \in 1..Len(all_cells) |->
            pair(all_cells[wi], all_cells[bi])])])

\* get_terminal_outcome with a stalemate scored as a loss of the side to move.
get_terminal_outcome_stalemate_lost(board, side_to_move) ==
    IF generate_all_legal_moves(board, side_to_move) = <<>>
    THEN [wdl |-> "Loss", dtm |-> 0]
    ELSE [wdl |-> "None", dtm |-> 0]

\* Option<(WDLOutcome, i32)>: the outcome of a terminal position, or none.
get_terminal_outcome(board, side_to_move) ==
    IF generate_all_legal_moves(board, side_to_move) = <<>>
    THEN IF is_in_check(board, side_to_move)
         THEN [wdl |-> "Loss", dtm |-> 0]
         ELSE [wdl |-> "Draw", dtm |-> -1]
    ELSE [wdl |-> "None", dtm |-> 0]

\* position_map: the position (board, side to move) of a key.
position_map(key) ==
    LET piece_of(e) ==
            [piece_type |-> CASE e[4] = "p" -> "Pawn"
                              [] e[4] = "n" -> "Knight"
                              [] e[4] = "l" -> "Lance"
                              [] e[4] = "c" -> "Chariot"
                              [] e[4] = "q" -> "Queen"
                              [] OTHER -> "King",
             color |-> IF e[3] = "w" THEN "White" ELSE "Black",
             variant |-> IF e[5] = "" THEN "None" ELSE e[5]]
        board == [k \in {<<e[1], e[2]>> : e \in key[1]} |->
                    piece_of(CHOOSE e \in key[1] : <<e[1], e[2]>> = k)]
    IN  <<board, IF key[2] = "w" THEN "White" ELSE "Black">>

\* The place of a key in the iteration order of a HashSet of keys.
tablebase_key_rank(key) ==
    LET code == hash_code(key[1]) * 2 + (IF key[2] = "w" THEN 0 ELSE 1)
    IN  CASE hash_seed = 1 -> code
          [] hash_seed = 2 -> 0 - code
          [] OTHER -> scramble(code)

max_iterations == 500

\* The dtm of a win through a move to a lost position.
new_dtm_late(entry) == entry.dtm + 2

new_dtm(entry) == entry.dtm + 1

\* The loop over the moves of one unknown position, from the i-th move on;
\* acc holds has_winning_move, all_moves_lose, best_move_info and max_dtm.
RECURSIVE scan_moves(_, _, _, _, _, _)
scan_moves(entries, board, side_to_move, moves, i, acc) ==
    IF i > Len(moves) THEN acc
    ELSE
    LET mv == moves[i]
        new_key == get_tablebase_key(apply_move(board, mv),
                                     opposite(side_to_move))
        next ==
            IF new_key \notin DOMAIN entries
            THEN [acc EXCEPT !.all_moves_lose = FALSE]
            ELSE LET entry == entries[new_key] IN
            CASE entry.wdl = "Loss" ->
                   [acc EXCEPT
                      !.has_winning_move = TRUE,
                      !.best_move_info =
                          IF acc.best_move_info.best_move = NoSerializedMove
                             \/ new_dtm(entry) < acc.best_move_info.dtm
                          THEN [best_move |-> from_move(mv),
                                dtm |-> new_dtm(entry)]
                          ELSE @]
              [] entry.wdl = "Win" ->
                   [acc EXCEPT !.max_dtm = Max2(@, entry.dtm)]
              [] OTHER -> [acc EXCEPT !.all_moves_lose = FALSE]
    IN  scan_moves(entries, board, side_to_move, moves, i + 1, next)

\* resolved_entry with every position that has no winning move entered as a
\* loss.
resolved_entry_lost_without_win(scanned, moves) ==
    IF scanned.has_winning_move
    THEN TablebaseEntry("Win", scanned.best_move_info.dtm,
                        scanned.best_move_info.best_move)
    ELSE TablebaseEntry("Loss", scanned.max_dtm + 1, NoSerializedMove)

\* The entry an unknown position gets from the outcome of the loop over its
\* moves, or none.
resolved_entry(scanned, moves) ==
    IF scanned.has_winning_move
    THEN TablebaseEntry("Win", scanned.best_move_info.dtm,
                        scanned.best_move_info.best_move)
    ELSE IF scanned.all_moves_lose /\ moves # <<>>
    THEN TablebaseEntry("Loss", scanned.max_dtm + 1, NoSerializedMove)
    ELSE NoTablebaseEntry

resolve_position(entries, board, side_to_move, moves) ==
    resolved_entry(scan_moves(entries, board, side_to_move, moves, 1,
                              [has_winning_move |-> FALSE,
                               all_moves_lose |-> TRUE,
                               best_move_info |->
                                   [best_move |-> NoSerializedMove, dtm |-> 0],
                               max_dtm |-> 0]),
                   moves)

\* The entry one unknown position gets in a round, or none.
resolve(entries, key) ==
    resolve_position(entries, position_map(key)[1], position_map(key)[2],
                     generate_all_legal_moves(position_map(key)[1],
                                              position_map(key)[2]))

probe_tablebase(loaded, board, side_to_move) ==
    LET config == detect_configuration(board) IN
    IF config = NoConfig THEN NotFound
    ELSE LET tablebase == get_tablebase(loaded, config.name) IN
    IF tablebase = NoTablebase THEN NotFound
    ELSE LET key == get_tablebase_key(board, side_to_move) IN
    IF key \in DOMAIN tablebase.entries
    THEN TablebaseProbeResult(TRUE, tablebase.entries[key], config.name)
    ELSE NotFound

\* get_tablebase_score; some = FALSE stands for Option::None.
get_tablebase_score(loaded, board, side_to_move) ==
    LET probed == probe_tablebase(loaded, board, side_to_move)
        entry == probed.entry
    IN  IF ~probed.found THEN [some |-> FALSE, value |-> 0]
        ELSE [some |-> TRUE,
              value |-> CASE entry.wdl = "Win" -> CHECKMATE_VALUE - entry.dtm
                          [] entry.wdl = "Draw" -> 0
                          [] OTHER -> (0 - CHECKMATE_VALUE) + entry.dtm]

\* ------------------------------------------------------------------------
\* ai.rs: get_ai_move
\* ------------------------------------------------------------------------

AIDifficulty == {"Easy", "Medium", "Hard"}

\* get_ai_move: the Move built from the best_move of a tablebase entry.
tablebase_move(board, best_move) ==
    [from |-> HexCoord(best_move.from_q, best_move.from_r),
     to |-> HexCoord(best_move.to_q, best_move.to_r),
     piece |-> get_piece_at(board,
                            HexCoord(best_move.from_q, best_move.from_r)),
     captured |-> get_piece_at(board,
                               HexCoord(best_move.to_q, best_move.to_r)),
     promotion |-> best_move.promotion]

\* get_ai_move, the tablebase part, from the configuration detected, the
\* result of probe_tablebase and the score of get_tablebase_score: found
\* tells that it returns a result without a search.
answer_of(board, config, probed, score) ==
    IF config = NoConfig \/ ~probed.found
       \/ probed.entry.best_move = NoSerializedMove
       \/ ~is_occupied(board, HexCoord(probed.entry.best_move.from_q,
                                       probed.entry.best_move.from_r))
    THEN [found |-> FALSE, result |-> NoResult]
    ELSE [found |-> TRUE,
          result |-> SearchResult(
                         tablebase_move(board, probed.entry.best_move),
                         IF score.some THEN score.value ELSE 0)]

tablebase_answer(loaded, board, color) ==
    answer_of(board, detect_configuration(board),
              probe_tablebase(loaded, board, color),
              get_tablebase_score(loaded, board, color))

\* Variant: every difficulty searches as Easy does.
difficulty_search_easy(difficulty) ==
    [iterative |-> FALSE, depth |-> 2, time_limit_ms |-> 0,
     use_quiescence |-> FALSE]

\* get_ai_move: the search of each difficulty.
difficulty_search(difficulty) ==
    CASE difficulty = "Easy" ->
           [iterative |-> FALSE, depth |-> 2, time_limit_ms |-> 0,
            use_quiescence |-> FALSE]
      [] difficulty = "Medium" ->
           [iterative |-> FALSE, depth |-> 4, time_limit_ms |-> 0,
            use_quiescence |-> TRUE]
      [] OTHER ->
           [iterative |-> TRUE, depth |-> 6, time_limit_ms |-> 5000,
            use_quiescence |-> TRUE]

\* ------------------------------------------------------------------------
\* game.rs
\* ------------------------------------------------------------------------

\* A PiecePlacement.
Placement(piece, q, r) == [piece |-> piece, position |-> HexCoord(q, r)]

get_starting_position ==
    << Placement(PieceNew("King", "White"), 0, 4),
       Placement(PieceNew("Queen", "White"), 1, 3),
       Placement(PieceNew("Chariot", "White"), -2, 4),
       Placement(PieceNew("Chariot", "White"), 2, 3),
       Placement(PieceLance("White", "A"), -1, 4),
       Placement(PieceLance("White", "B"), 1, 4),
       Placement(PieceNew("Knight", "White"), -2, 3),
       Placement(PieceNew("Knight", "White"), 2, 4),
       Placement(PieceNew("Pawn", "White"), -3, 3),
       Placement(PieceNew("Pawn", "White"), -2, 2),
       Placement(PieceNew("Pawn", "White"), -1, 2),
       Placement(PieceNew("Pawn", "White"), 0, 2),
       Placement(PieceNew("Pawn", "White"), 1, 2),
       Placement(PieceNew("Pawn", "White"), 2, 2),
       Placement(PieceNew("King", "Black"), 0, -4),
       Placement(PieceNew("Queen", "Black"), -1, -3),
       Placement(PieceNew("Chariot", "Black"), 2, -4),
       Placement(PieceNew("Chariot", "Black"), -2, -3),
       Placement(PieceLance("Black", "A"), 1, -4),
       Placement(PieceLance("Black", "B"), -1, -4),
       Placement(PieceNew("Knight", "Black"), 2, -3),
       Placement(PieceNew("Knight", "Black"), -2, -4),
       Placement(PieceNew("Pawn", "Black"), 3, -3),
       Placement(PieceNew("Pawn", "Black"), 2, -2),
       Placement(PieceNew("Pawn", "Black"), 1, -2),
       Placement(PieceNew("Pawn", "Black"), 0, -2),
       Placement(PieceNew("Pawn", "Black"), -1, -2),
       Placement(PieceNew("Pawn", "Black"), -2, -2) >>

\* Inserting the placements in order: a later placement on a key replaces
\* an earlier one.
create_board_from_placements(placements) ==
    LET keys == {to_key(placements[i].position) : i \in 1..Len(placements)}
        last(k) == CHOOSE i \in 1..Len(placements) :
                      /\ to_key(placements[i].position) = k
                      /\ \A j \in 1..Len(placements) :
                            to_key(placements[j].position) = k => j <= i
    IN  [k \in keys |-> placements[last(k)].piece]

\* GameStatus
Status(kind, winner) == [kind |-> kind, winner |-> winner]

Ongoing == Status("Ongoing", "None")

GameState(board, turn, move_number, half_move_clock, history, status) ==
    [board |-> board, turn |-> turn, move_number |-> move_number,
     half_move_clock |-> half_move_clock, history |-> history,
     status |-> status]

\* Option<GameState>::None
NoGameState ==
    GameState([k \in {} |-> NoPiece], "None", 0, 0, <<>>, Status("None", "None"))

create_new_game ==
    GameState(create_board_from_placements(get_starting_position),
              "White", 1, 0, <<>>, Ongoing)

\* determine_status with every position without a legal move a checkmate.
determine_status_stuck_is_mate(board, next_turn) ==
    IF generate_all_legal_moves(board, next_turn) = <<>>
    THEN Status("Checkmate", opposite(next_turn))
    ELSE Ongoing

determine_status(board, next_turn) ==
    LET legal_moves == generate_all_legal_moves(board, next_turn)
    IN  IF legal_moves = <<>>
        THEN IF is_in_check(board, next_turn)
             THEN Status("Checkmate", opposite(next_turn))
             ELSE Status("Stalemate", "None")
        ELSE Ongoing

\* Variant: make_move without the test of the status.
make_move_any_status(st, from, to) ==
    IF ~validate_move(st.board, from, to, st.turn).legal THEN NoGameState
    ELSE IF ~is_occupied(st.board, from) THEN NoGameState
    ELSE
    LET piece == get_piece_at(st.board, from)
        captured == get_piece_at(st.board, to)
        mv == [piece |-> piece, from |-> from, to |-> to,
               captured |-> captured, promotion |-> "None"]
        new_board == apply_move(st.board, mv)
        next_turn == opposite(st.turn)
    IN  GameState(new_board, next_turn, st.move_number, 0,
                  Append(st.history, mv), Ongoing)

make_move(st, from, to) ==
    IF st.status # Ongoing THEN NoGameState
    ELSE IF ~validate_move(st.board, from, to, st.turn).legal THEN NoGameState
    ELSE IF ~is_occupied(st.board, from) THEN NoGameState
    ELSE
    LET piece == get_piece_at(st.board, from)
        captured == get_piece_at(st.board, to)
        mv == [piece |-> piece, from |-> from, to |-> to,
               captured |-> captured, promotion |-> "None"]
        new_board == apply_move(st.board, mv)
        next_turn == opposite(st.turn)
        status == determine_status(new_board, next_turn)
        half_move_clock ==
            IF piece.piece_type = "Pawn" \/ captured # NoPiece
            THEN 0 ELSE st.half_move_clock + 1
        move_number ==
            IF st.turn = "Black" THEN st.move_number + 1 ELSE st.move_number
    IN  GameState(new_board, next_turn, move_number, half_move_clock,
                  Append(st.history, mv), status)

resign(st, color) == [st EXCEPT !.status = Status("Resigned", opposite(color))]

\* ------------------------------------------------------------------------
\* lib.rs: the WasmGame object
\* ------------------------------------------------------------------------

\* The last call made on the game object and what it returned.
Call(op, from, to, ret) == [op |-> op, from |-> from, to |-> to, ret |-> ret]

NoCall == Call("new", NoCoord, NoCoord, TRUE)

\* Longest history the model plays.
MaxPlies == 11

Mv(fq, fr, tq, tr) == <<HexCoord(fq, fr), HexCoord(tq, tr)>>

\* The (from, to) arguments the callers of a scenario pass to make_move.
\* Scenario 1 walks a White pawn from (2,2) to its promotion rank; scenario 2
\* brings a White knight to (-1,-2) after Black has opened the file of the
\* lance on (-1,-4).  Each scenario also passes arguments make_move rejects.
ScriptMoves ==
    << {Mv(2, 2, 2, 1), Mv(2, -3, 4, -4), Mv(2, 1, 2, 0), Mv(3, -3, 3, -2),
        Mv(2, 0, 2, -1), Mv(4, -4, 2, -3), Mv(2, -1, 2, -2), Mv(3, -2, 3, -1),
        Mv(2, -2, 2, -3), Mv(3, -1, 3, 0), Mv(2, -3, 2, -4)},
       {Mv(-2, 3, -3, 2), Mv(-2, -2, -2, -1), Mv(-3, 2, -2, 0),
        Mv(2, -4, 3, -4), Mv(-2, 2, -2, 1), Mv(-1, -3, -4, 0),
        Mv(-2, 0, -1, -2)} >>

BadMoves == {Mv(0, 0, 0, 1), Mv(0, 2, 0, 5), Mv(0, 4, 0, 3)}

Inputs == ScriptMoves[script] \cup BadMoves

\* Sparse positions: a pinned lance, a mate in one, pawns one step from
\* promotion, a king in check, bare kings.
PinnedLance ==
    << Placement(PieceNew("King", "White"), 0, 4),
       Placement(PieceLance("White", "A"), 0, 2),
       Placement(PieceLance("Black", "B"), 0, -1),
       Placement(PieceNew("King", "Black"), -4, 0) >>

MateInOne ==
    << Placement(PieceNew("King", "White"), 2, -2),
       Placement(PieceNew("King", "Black"), 4, -4),
       Placement(PieceNew("Queen", "White"), 3, 1) >>

PawnsToPromote ==
    << Placement(PieceNew("King", "White"), 0, 4),
       Placement(PieceNew("Pawn", "White"), 1, -3),
       Placement(PieceNew("King", "Black"), -3, -1),
       Placement(PieceNew("Pawn", "Black"), -1, 3) >>

KingInCheck ==
    << Placement(PieceNew("King", "Black"), 0, -4),
       Placement(PieceNew("Knight", "Black"), 0, -2),
       Placement(PieceNew("Chariot", "White"), 3, -4),
       Placement(PieceNew("King", "White"), 0, 4) >>

BareKings ==
    << Placement(PieceNew("King", "White"), -1, -2),
       Placement(PieceNew("King", "Black"), -1, 1) >>

\* The positions a caller hands to make_move.
PlayStarts ==
    << [placements |-> PinnedLance, turn |-> "White"],
       [placements |-> MateInOne, turn |-> "White"],
       [placements |-> PawnsToPromote, turn |-> "White"],
       [placements |-> KingInCheck, turn |-> "Black"] >>

\* Longest history played from a sparse position.
MaxPlayPlies == 2

\* The (from, to) pairs of the pseudo-legal moves of the side to move.
PlayInputs ==
    UNION {{<<m.from, m.to>> :
              m \in {generate_pseudo_legal_moves(state.board, state.board[k],
                                                 from_key(k))[i] :
                       i \in 1..Len(generate_pseudo_legal_moves(
                                        state.board, state.board[k],
                                        from_key(k)))}} :
           k \in {j \in DOMAIN state.board :
                    state.board[j].color = state.turn}}

\* WasmGame::make_move
MakeMove(from, to) ==
    LET new_state == make_move(state, from, to)
    IN  IF new_state # NoGameState
        THEN /\ state' = new_state
             /\ call' = Call("make_move", from, to, TRUE)
        ELSE /\ state' = state
             /\ call' = Call("make_move", from, to, FALSE)

\* WasmGame::resign
Resign ==
    /\ state' = resign(state, state.turn)
    /\ call' = Call("resign", NoCoord, NoCoord, TRUE)

\* A caller that walks the game tree as the searches do: it takes a move of
\* generate_all_legal_moves for the side to move and goes on from the board
\* apply_move returns.
ApplyMove ==
    /\ Len(state.history) < MaxPlies
    /\ \E m \in Range(generate_all_legal_moves(state.board, state.turn)) :
          /\ <<m.from, m.to>> \in ScriptMoves[script]
          /\ state' = [state EXCEPT !.board = apply_move(state.board, m),
                                    !.turn = opposite(state.turn),
                                    !.history = Append(@, m)]
          /\ call' = Call("apply_move", m.from, m.to, TRUE)

\* Largest capacity of the tables the stores are made on.
MaxTableSize == 3

\* The boards stored.
TableBoards == <<BareKings, MateInOne, PinnedLance>>

\* The depth, score, bound and best move of the stores.
StoreInputs ==
    { <<2, 50, "Exact",
        MoveNew(PieceNew("King", "White"), HexCoord(0, 4), HexCoord(0, 3))>>,
      <<1, 0 - 5, "Lower", NoMove>>,
      <<1, 7, "Upper",
        MoveNew(PieceNew("King", "White"), HexCoord(0, 4), HexCoord(1, 3))>>,
      <<0, 50, "Upper", NoMove>> }

\* A call of TranspositionTable::store, with its arguments.
StoreCall(board, depth, score, entry_type, best_move) ==
    [op |-> "store", board |-> board, depth |-> depth, score |-> score,
     entry_type |-> entry_type, best_move |-> best_move]

Store ==
    \E i \in 1..Len(TableBoards), a \in StoreInputs :
       LET board == create_board_from_placements(TableBoards[i])
       IN  /\ tt' = store(tt, board, a[1], a[2], a[3], a[4])
           /\ call' = StoreCall(board, a[1], a[2], a[3], a[4])

Clear ==
    /\ tt' = clear(tt)
    /\ call' = [op |-> "clear"]

\* The boards validate_move is called on: the sparse positions and the
\* starting position.
ValidateBoards ==
    << PinnedLance, MateInOne, PawnsToPromote, KingInCheck, BareKings,
       get_starting_position >>

\* The coordinates a caller passes: every cell of the board, and the
\* coordinates one step outside it.
ValidateCoords ==
    {c \in {HexCoord(q, r) : q \in -5..5, r \in -5..5} :
        hex_distance(c, HexCoord(0, 0)) <= BOARD_RADIUS + 1}

\* The boards a caller passes to is_in_check: a board of ValidateBoards, and
\* that board with one of its pieces taken off, a king included.
CheckBoards ==
    LET board == create_board_from_placements(ValidateBoards[script])
    IN  {board} \cup {[k \in DOMAIN board \ {gone} |-> board[k]]
                        : gone \in DOMAIN board}

\* A call of is_in_check and its outcome: aborted tells that the call
\* panicked, ret is the boolean it returned.
CheckCall(op, board, color, aborted, ret) ==
    [op |-> op, board |-> board, color |-> color, aborted |-> aborted,
     ret |-> ret]

\* is_in_check is called with the arguments the caller has ready; both of
\* its branches return a boolean, none panics.
IsInCheck ==
    /\ call.op = "check_args"
    /\ call' = CheckCall("is_in_check", call.board, call.color, FALSE,
                         is_in_check(call.board, call.color))
    /\ UNCHANGED state

\* The cells a pawn is put on: the centre, the ranks next to either edge, the
\* edge ranks and the corners of the sides.
PawnCells ==
    {HexCoord(0, 0), HexCoord(0, 2), HexCoord(0, -3), HexCoord(0, 3),
     HexCoord(4, -2), HexCoord(-4, 2), HexCoord(1, -4), HexCoord(-1, 4),
     HexCoord(3, -3), HexCoord(-3, 3)}

\* What a cell next to the pawn holds: nothing, a piece of the pawn's side or
\* a piece of the other side.
PawnNeighbours == {"empty", "friend", "enemy"}

\* A board with a pawn on from and the three cells ahead of it filled as
\* holds tells, where they are on the board.
pawn_board(color, from, holds) ==
    LET dirs == IF color = "White" THEN <<"N", "NE", "NW">>
                ELSE <<"S", "SE", "SW">>
        filled == {i \in 1..3 : /\ get_neighbor(from, dirs[i]) # NoCoord
                                /\ holds[i] # "empty"}
        keys == {to_key(get_neighbor(from, dirs[i])) : i \in filled}
    IN  [k \in keys \cup {to_key(from)} |->
           IF k = to_key(from) THEN PieceNew("Pawn", color)
           ELSE LET i == CHOOSE j \in filled :
                             to_key(get_neighbor(from, dirs[j])) = k
                IN  IF holds[i] = "friend" THEN PieceNew("Chariot", color)
                    ELSE PieceNew("Knight", opposite(color))]

MovesCall(op, board, from, moves) ==
    [op |-> op, board |-> board, from |-> from, moves |-> moves]

\* generate_pseudo_legal_moves is called for the pawn on from, with the
\* arguments the caller has ready.
PawnMoves ==
    /\ call.op = "pawn_args"
    /\ call' = MovesCall("generate_pseudo_legal_moves", call.board, call.from,
                         generate_pseudo_legal_moves(
                             call.board, get_piece_at(call.board, call.from),
                             call.from))
    /\ UNCHANGED state

\* A call of validate_move on the board and turn of the state, with the
\* arguments the caller has ready.
ValidateMove ==
    /\ call.op = "args"
    /\ call' = Call("validate_move", call.from, call.to,
                    validate_move(state.board, call.from, call.to, state.turn))
    /\ UNCHANGED state

\* ------------------------------------------------------------------------
\* find_best_move on the table of lib.rs, step by step
\* ------------------------------------------------------------------------

\* lib.rs: GLOBAL_TT
GLOBAL_TT == TranspositionTableNew(50000)

\* The arguments of the find_best_move calls.
SearchRoots ==
    << [placements |-> BareKings, color |-> "Black", depth |-> 3,
        use_quiescence |-> FALSE],
       [placements |-> MateInOne, color |-> "White", depth |-> 3,
        use_quiescence |-> FALSE],
       [placements |-> PinnedLance, color |-> "White", depth |-> 2,
        use_quiescence |-> TRUE] >>

\* The number of find_best_move calls made on the table.
MaxSearches == 1

SearchCall(board, color, depth, use_quiescence, fresh) ==
    [op |-> "find_best_move", board |-> board, color |-> color,
     depth |-> depth, use_quiescence |-> use_quiescence, fresh |-> fresh]

\* find_best_move is called; without a legal move it returns at once.
StartSearch ==
    /\ stack = <<>>
    /\ searches < MaxSearches
    /\ LET root == SearchRoots[script]
           board == create_board_from_placements(root.placements)
           entered == find_best_move_enter(tt, board, root.color, root.depth,
                                           root.use_quiescence)
       IN  /\ call' = SearchCall(board, root.color, root.depth,
                                 root.use_quiescence, DOMAIN tt.table = {})
           /\ IF entered.kind = "value"
              THEN /\ result' = SearchResult(NoMove, entered.value)
                   /\ searches' = searches + 1
                   /\ stack' = <<>>
              ELSE /\ stack' = <<entered>>
                   /\ UNCHANGED <<result, searches>>
    /\ UNCHANGED <<tt, last_store>>

\* The call of alpha_beta the top activation makes on its next move.
next_call ==
    LET caller == stack[Len(stack)]
    IN  alpha_beta_enter(tt,
                         apply_move(caller.board, caller.moves[caller.idx]),
                         caller.depth - 1, caller.alpha, caller.beta,
                         ~caller.maximizing, caller.use_quiescence)

in_loop ==
    /\ stack # <<>>
    /\ stack[Len(stack)].idx <= Len(stack[Len(stack)].moves)
    /\ ~stack[Len(stack)].cut

\* The call returns without a loop: a table hit, a terminal node or a leaf.
Evaluate ==
    /\ in_loop
    /\ next_call.kind = "value"
    /\ stack' = [stack EXCEPT ![Len(stack)] = absorb(@, next_call.value)]
    /\ UNCHANGED <<tt, result, last_store, searches, call>>

\* The call enters its loop.
Descend ==
    /\ in_loop
    /\ next_call.kind = "alpha_beta"
    /\ stack' = Append(stack, next_call)
    /\ UNCHANGED <<tt, result, last_store, searches, call>>

\* alpha_beta leaves its loop, stores its entry and returns to its caller.
Return ==
    /\ stack # <<>>
    /\ ~in_loop
    /\ stack[Len(stack)].kind = "alpha_beta"
    /\ LET frame == stack[Len(stack)]
       IN  /\ tt' = store(tt, frame.board, frame.depth, frame.best_eval,
                          store_type(frame), frame.best_move)
           /\ last_store' = Stored(frame.maximizing, frame.original_alpha,
                                   frame.entry_beta, frame.depth,
                                   frame.best_eval, store_type(frame))
           /\ stack' = [SubSeq(stack, 1, Len(stack) - 1)
                          EXCEPT ![Len(stack) - 1] = absorb(@, frame.best_eval)]
    /\ UNCHANGED <<result, searches, call>>

\* find_best_move leaves its loop, stores the root and returns its result.
Finish ==
    /\ stack # <<>>
    /\ ~in_loop
    /\ stack[Len(stack)].kind = "find_best_move"
    /\ LET frame == stack[Len(stack)]
       IN  /\ tt' = store(tt, frame.board, frame.depth, frame.best_eval,
                          "Exact", frame.best_move)
           /\ result' = SearchResult(frame.best_move, frame.best_eval)
    /\ stack' = <<>>
    /\ searches' = searches + 1
    /\ UNCHANGED <<last_store, call>>

\* A call of find_best_move from find_best_move_iterative or get_ai_move:
\* without a legal move it returns at once, otherwise it enters its loop.
CallFindBestMove(board, color, depth, use_quiescence) ==
    /\ \E entered \in {find_best_move_enter(tt, board, color, depth,
                                             use_quiescence)} :
          IF entered.kind = "value"
          THEN /\ result' = SearchResult(NoMove, entered.value)
               /\ searches' = searches + 1
               /\ stack' = <<>>
          ELSE /\ stack' = <<entered>>
               /\ UNCHANGED <<result, searches>>
    /\ call' = SearchCall(board, color, depth, use_quiescence,
                          DOMAIN tt.table = {})
    /\ UNCHANGED <<tt, last_store>>

\* The depth arguments of the find_best_move calls a caller makes itself.
DepthArgs == 0..2

\* Longest stack of activations the model follows a search to.
MaxStack == 4

\* find_best_move is called on the root of the scenario with a depth
\* argument of the caller.
FindBestMove ==
    /\ stack = <<>>
    /\ ai = NoActivation
    /\ searches < MaxSearches
    /\ \E depth \in DepthArgs :
          CallFindBestMove(
              create_board_from_placements(SearchRoots[script].placements),
              SearchRoots[script].color, depth,
              SearchRoots[script].use_quiescence)

\* Deepest iteration of find_best_move_iterative the model runs: the clock
\* has passed the time limit at the head of any deeper iteration.
MaxIterDepth == 3

\* The time limits of the calls, in milliseconds.
TimeLimits == {0, 5000}

\* The values start_time.elapsed() is read at: none of the limit passed, the
\* limit just reached, the limit passed.
Readings(time_limit_ms) == {0, time_limit_ms, time_limit_ms + 1}

\* find_best_move_iterative is called and calls find_best_move at depth 1.
IterativeStart ==
    /\ ai = NoActivation
    /\ stack = <<>>
    /\ \E max_depth \in 1..MaxIterDepth, time_limit_ms \in TimeLimits :
          LET root == SearchRoots[script]
              board == create_board_from_placements(root.placements)
          IN  /\ ai' = Activation("find_best_move_iterative", "None", board,
                                  root.color, max_depth, time_limit_ms,
                                  root.use_quiescence, 1, <<>>, NoResult, 0,
                                  FALSE)
              /\ CallFindBestMove(board, root.color, 1, root.use_quiescence)

\* The find_best_move call has returned: its result is taken, and the loop
\* goes to the next depth, reads the clock, and breaks or calls
\* find_best_move again.
IterativeNext ==
    /\ ai.op = "find_best_move_iterative"
    /\ ~ai.returned
    /\ stack = <<>>
    /\ LET taken == take_result(ai, result)
           depth == ai.depth + 1
           last == IF ai.checks = <<>> THEN 0 ELSE ai.checks[Len(ai.checks)]
       IN  IF depth > ai.max_depth
           THEN /\ ai' = [taken EXCEPT !.returned = TRUE]
                /\ UNCHANGED <<searchVars, call>>
           ELSE \E elapsed \in Readings(ai.time_limit_ms) :
                   /\ elapsed >= last
                   /\ depth > MaxIterDepth
                         => time_exceeded(elapsed, ai.time_limit_ms)
                   /\ IF time_exceeded(elapsed, ai.time_limit_ms)
                      THEN /\ ai' = [taken EXCEPT !.checks = Append(@, elapsed),
                                                  !.returned = TRUE]
                           /\ UNCHANGED <<searchVars, call>>
                      ELSE /\ ai' = [taken EXCEPT !.checks = Append(@, elapsed),
                                                  !.depth = depth]
                           /\ CallFindBestMove(ai.board, ai.color, depth,
                                               ai.use_quiescence)

\* ------------------------------------------------------------------------
\* initialize_tablebases and probe_tablebase, step by step
\* ------------------------------------------------------------------------

\* The configurations of initialize_tablebases, in its order.
common_configs ==
    << TablebaseConfig(<<>>, <<>>, <<"K", "v", "K">>),
       TablebaseConfig(<<"Queen">>, <<>>, <<"K", "Q", "v", "K">>),
       TablebaseConfig(<<"Lance">>, <<>>, <<"K", "L", "v", "K">>),
       TablebaseConfig(<<"Chariot">>, <<>>, <<"K", "C", "v", "K">>),
       TablebaseConfig(<<"Knight">>, <<>>, <<"K", "N", "v", "K">>) >>

\* The number of configurations the model generates.
MaxConfigs == 2

\* The cells the model enumerates are those within TbRadius less shrink of an
\* anchor cell: a corner region where the queen mates, and the region around
\* the centre, which its own point reflection maps to itself.
TbRadius == 2

TbRegions ==
    << [anchor |-> HexCoord(4, -3), shrink |-> 0],
       [anchor |-> HexCoord(0, 0), shrink |-> 1] >>

covered_cells ==
    LET region == TbRegions[script]
        near(c) == hex_distance(c, region.anchor) <= TbRadius - region.shrink
    IN  SelectSeq(get_all_cells, near)

Generation(active, config, entries, unknown_positions, iteration, changed) ==
    [active |-> active, config |-> config, entries |-> entries,
     unknown_positions |-> unknown_positions, iteration |-> iteration,
     changed |-> changed]

\* No generate_tablebase call is running.
NoGeneration == Generation(FALSE, NoConfig, [k \in {} |-> 0], <<>>, 0, FALSE)

\* The keys of a sequence of positions.
keys_of(positions) == {get_tablebase_key(p[1], p[2]) : p \in Range(positions)}

\* Phase 1 of generate_tablebase from the pairs of a key and its terminal
\* outcome: the terminal positions get their entries, the others are unknown.
phase_one(config, outcomes) ==
    Generation(TRUE, config,
               [key \in {p[1] : p \in {o \in outcomes : o[2].wdl # "None"}} |->
                  LET outcome == (CHOOSE o \in outcomes : o[1] = key)[2]
                  IN  TablebaseEntry(outcome.wdl, outcome.dtm,
                                     NoSerializedMove)],
               sort_by({o[1] : o \in {p \in outcomes : p[2].wdl = "None"}},
                       [key \in {o[1] : o \in outcomes} |->
                          tablebase_key_rank(key)]),
               0, TRUE)

terminal_outcomes(keys) ==
    {<<key, get_terminal_outcome(position_map(key)[1], position_map(key)[2])>>
       : key \in keys}

\* initialize_tablebases calls generate_tablebase for its next
\* configuration; phase 1.
GenStart ==
    /\ ~gen.active
    /\ Cardinality(DOMAIN tablebases) < MaxConfigs
    /\ gen' = phase_one(
                  common_configs[Cardinality(DOMAIN tablebases) + 1],
                  terminal_outcomes(keys_of(generate_all_positions(
                      common_configs[Cardinality(DOMAIN tablebases) + 1],
                      covered_cells))))
    /\ call' = Call("generate_tablebase", NoCoord, NoCoord, TRUE)
    /\ UNCHANGED <<tablebases, probe_result, probes>>

\* The for loop of a round handles key: round holds the entries, to_resolve
\* and changed.
visit(round, key, entry) ==
    IF entry = NoTablebaseEntry THEN round
    ELSE [entries |-> (key :> entry) @@ round.entries,
          to_resolve |-> round.to_resolve \cup {key},
          changed |-> TRUE]

\* The for loop over the unknown positions lo..hi, in their order.
RECURSIVE visit_range(_, _, _, _)
visit_range(round, unknown_positions, lo, hi) ==
    IF lo > hi THEN round
    ELSE IF lo = hi
    THEN visit(round, unknown_positions[lo],
               resolve(round.entries, unknown_positions[lo]))
    ELSE CHOOSE after \in
             {visit_range(first, unknown_positions, (lo + hi) \div 2 + 1, hi)
                : first \in {visit_range(round, unknown_positions, lo,
                                         (lo + hi) \div 2)}} : TRUE

\* The activation after a round that reports no change.
after_round_unchanged(round) ==
    LET stays(key) == key \notin round.to_resolve
    IN  [gen EXCEPT !.entries = round.entries,
                    !.unknown_positions = SelectSeq(@, stays),
                    !.changed = FALSE,
                    !.iteration = @ + 1]

\* The activation after a round of the while loop.
after_round(round) ==
    LET stays(key) == key \notin round.to_resolve
    IN  [gen EXCEPT !.entries = round.entries,
                    !.unknown_positions = SelectSeq(@, stays),
                    !.changed = round.changed,
                    !.iteration = @ + 1]

\* One round of the while loop of phase 2.
Round ==
    /\ gen.active
    /\ gen.changed /\ gen.iteration < max_iterations
    /\ gen' = after_round(
                  visit_range([entries |-> gen.entries, to_resolve |-> {},
                               changed |-> FALSE],
                              gen.unknown_positions, 1,
                              Len(gen.unknown_positions)))
    /\ UNCHANGED <<call, tablebases, probe_result, probes>>

\* Phase 3 with the positions still unknown entered as losses.
phase_three_lost(draws) ==
    [k \in DOMAIN gen.entries \cup draws |->
       IF k \in draws THEN TablebaseEntry("Loss", -1, NoSerializedMove)
       ELSE gen.entries[k]]

\* Phase 3: the positions still unknown are draws.
phase_three(draws) ==
    [k \in DOMAIN gen.entries \cup draws |->
       IF k \in draws THEN TablebaseEntry("Draw", -1, NoSerializedMove)
       ELSE gen.entries[k]]

\* The while loop ends; phase 3, and initialize_tablebases loads the
\* tablebase.
GenFinish ==
    /\ gen.active
    /\ ~(gen.changed /\ gen.iteration < max_iterations)
    /\ tablebases' = set_tablebase(tablebases,
                                   PieceTablebase(gen.config.name,
                                                  phase_three(
                                                      Range(gen.unknown_positions))))
    /\ gen' = NoGeneration
    /\ UNCHANGED <<call, probe_result, probes>>

\* The point reflection of a board with the colours swapped.
mirror(board) ==
    [k \in {<<0 - j[1], 0 - j[2]>> : j \in DOMAIN board} |->
       LET piece == board[<<0 - k[1], 0 - k[2]>>]
       IN  [piece EXCEPT !.color = opposite(@)]]

\* The cells of the positions callers probe.
probe_cells ==
    LET near(c) == hex_distance(c, TbRegions[script].anchor) <= TbRadius - 1
    IN  SelectSeq(covered_cells, near)

\* The positions callers probe: those of the generated configurations and
\* their reflections.
ProbeInputs ==
    LET positions ==
            UNION {Range(generate_all_positions(common_configs[i],
                                                probe_cells))
                     : i \in 1..MaxConfigs}
    IN  positions \cup {<<mirror(p[1]), opposite(p[2])>> : p \in positions}

ProbeCall(board, side_to_move) ==
    [op |-> "probe_tablebase", board |-> board, side_to_move |-> side_to_move]

\* initialize_tablebases has returned.
all_loaded ==
    /\ ~gen.active
    /\ Cardinality(DOMAIN tablebases) = MaxConfigs

\* The number of probe_tablebase calls the model makes.
MaxProbes == 1

\* probe_tablebase is called once the tablebases are loaded.
Probe(board, side_to_move) ==
    /\ all_loaded
    /\ probes < MaxProbes
    /\ probes' = probes + 1
    /\ probe_result' = probe_tablebase(tablebases, board, side_to_move)
    /\ call' = ProbeCall(board, side_to_move)
    /\ UNCHANGED <<tablebases, gen>>

\* The configurations callers generate on their own: KvK and KNvK.
KvK == common_configs[1]

KNvK == common_configs[5]

\* generate_tablebase is called for one configuration; phase 1. The caller
\* passes the finished tablebase to set_tablebase, and generates its
\* tablebases before its first probe.
Generate(config) ==
    /\ probes = 0
    /\ ~gen.active
    /\ config.name \notin DOMAIN tablebases
    /\ gen' = phase_one(config,
                        terminal_outcomes(keys_of(generate_all_positions(
                            config, covered_cells))))
    /\ call' = Call("generate_tablebase", NoCoord, NoCoord, TRUE)
    /\ UNCHANGED <<tablebases, probe_result, probes>>

\* A board of two kings.
create_kvk_position(white_king_pos, black_king_pos) ==
    create_board_from_placements(
        << Placement(PieceNew("King", "White"),
                     white_king_pos.q, white_king_pos.r),
           Placement(PieceNew("King", "Black"),
                     black_king_pos.q, black_king_pos.r) >>)

\* probe_tablebase is called on a board of two kings once the KvK tablebase
\* is installed.
ProbeKings(white_king_pos, black_king_pos, side_to_move) ==
    /\ ~gen.active
    /\ KvK.name \in DOMAIN tablebases
    /\ white_king_pos # black_king_pos
    /\ probes < MaxProbes
    /\ probes' = probes + 1
    /\ probe_result' = probe_tablebase(
                           tablebases,
                           create_kvk_position(white_king_pos, black_king_pos),
                           side_to_move)
    /\ call' = ProbeCall(create_kvk_position(white_king_pos, black_king_pos),
                         side_to_move)
    /\ UNCHANGED <<tablebases, gen>>

\* clear_tablebases is called.
ClearTablebases ==
    /\ ~gen.active
    /\ tablebases' = [n \in {} |-> NoTablebase]
    /\ call' = [op |-> "clear_tablebases"]
    /\ UNCHANGED <<gen, probe_result, probes>>

\* set_tablebase is called with a tablebase the caller built.
SetTablebase(tablebase) ==
    /\ ~gen.active
    /\ tablebases' = set_tablebase(tablebases, tablebase)
    /\ call' = [op |-> "set_tablebase"]
    /\ UNCHANGED <<gen, probe_result, probes>>

\* A king and queen against a king on the cells of the first region, won for
\* White to move.
QueenWins ==
    << Placement(PieceNew("King", "White"), 3, -2),
       Placement(PieceNew("Queen", "White"), 3, -1),
       Placement(PieceNew("King", "Black"), 4, -4) >>

\* Two kings on the cells of the first region.
CornerKings ==
    << Placement(PieceNew("King", "White"), 3, -2),
       Placement(PieceNew("King", "Black"), 4, -4) >>

\* A king and queen against a king on the cells of the second region.
QueenDraws ==
    << Placement(PieceNew("King", "White"), -1, 0),
       Placement(PieceNew("Queen", "White"), -1, 1),
       Placement(PieceNew("King", "Black"), 0, 1) >>

AiInput(placements, color, difficulty, loaded) ==
    [placements |-> placements, color |-> color, difficulty |-> difficulty,
     loaded |-> loaded]

\* The get_ai_move calls of a scenario: loaded tells whether the call is made
\* after initialize_tablebases or without it.
AiInputs ==
    {AiInput(BareKings, "Black", d, FALSE) : d \in AIDifficulty}
       \cup {AiInput(PinnedLance, "White", "Easy", FALSE)}
       \cup (IF script = 1
             THEN {AiInput(QueenWins, "White", d, TRUE) : d \in AIDifficulty}
                     \cup {AiInput(QueenWins, "White", "Easy", FALSE)}
                     \cup {AiInput(CornerKings, "Black", d, TRUE)
                             : d \in {"Easy", "Medium"}}
             ELSE {AiInput(QueenDraws, "Black", "Easy", TRUE)})

\* get_ai_move is called: it returns the move of the tablebase, or calls the
\* search of the difficulty.
GetAiMove ==
    /\ ai = NoActivation
    /\ stack = <<>>
    /\ ~gen.active
    /\ \E input \in AiInputs :
          /\ input.loaded = all_loaded
          /\ ~input.loaded => DOMAIN tablebases = {}
          /\ LET board == create_board_from_placements(input.placements)
                 answer == tablebase_answer(tablebases, board, input.color)
                 search == difficulty_search(input.difficulty)
                 depth == IF search.iterative THEN 1 ELSE search.depth
             IN  IF answer.found
                 THEN /\ ai' = Activation("probe_tablebase", input.difficulty,
                                         board, input.color, 0, 0, FALSE, 0,
                                         <<>>, answer.result, 0, TRUE)
                      /\ UNCHANGED <<searchVars, call>>
                 ELSE /\ ai' = Activation(IF search.iterative
                                          THEN "find_best_move_iterative"
                                          ELSE "find_best_move",
                                          input.difficulty, board, input.color,
                                          search.depth, search.time_limit_ms,
                                          search.use_quiescence, depth, <<>>,
                                          NoResult, 0, FALSE)
                      /\ CallFindBestMove(board, input.color, depth,
                                          search.use_quiescence)

\* The get_ai_move calls made while another thread works on the registry of
\* tablebases.
RaceInputs ==
    IF script = 1 THEN {AiInput(QueenWins, "White", "Easy", TRUE)}
    ELSE {AiInput(QueenDraws, "Black", "Easy", TRUE)}

\* get_ai_move as the steps that take the lock of the registry.  The first
\* step is its probe_tablebase call, which locks the registry in
\* get_tablebase and releases it: with an entry that has a best_move on an
\* occupied cell get_ai_move builds the move, otherwise it calls the search
\* of the difficulty.
AiProbe ==
    /\ ai = NoActivation
    /\ stack = <<>>
    /\ all_loaded
    /\ \E input \in RaceInputs :
       \E probed \in
          {probe_tablebase(tablebases,
                           create_board_from_placements(input.placements),
                           input.color)} :
          LET board == create_board_from_placements(input.placements)
              search == difficulty_search(input.difficulty)
              depth == IF search.iterative THEN 1 ELSE search.depth
          IN  /\ probe_result' = probed
              /\ IF answer_of(board, detect_configuration(board), probed,
                              [some |-> FALSE, value |-> 0]).found
                 THEN /\ ai' = Activation(
                                   "probe_tablebase", input.difficulty, board,
                                   input.color, 0, 0, FALSE, 0, <<>>,
                                   SearchResult(
                                       tablebase_move(board,
                                                      probed.entry.best_move),
                                       0),
                                   0, FALSE)
                      /\ UNCHANGED <<searchVars, call>>
                 ELSE /\ ai' = Activation(IF search.iterative
                                          THEN "find_best_move_iterative"
                                          ELSE "find_best_move",
                                          input.difficulty, board, input.color,
                                          search.depth, search.time_limit_ms,
                                          search.use_quiescence, depth, <<>>,
                                          NoResult, 0, FALSE)
                      /\ CallFindBestMove(board, input.color, depth,
                                          search.use_quiescence)
    /\ UNCHANGED <<tablebases, gen, probes>>

\* The second step: get_tablebase_score, which probes the registry again
\* under a new lock; get_ai_move returns the move built from the first probe
\* with this score, or 0 without one.
AiScore ==
    /\ ai.op = "probe_tablebase"
    /\ ~ai.returned
    /\ \E score \in {get_tablebase_score(tablebases, ai.board, ai.color)} :
          ai' = [ai EXCEPT
                   !.best_result = SearchResult(@.best_move,
                                                IF score.some THEN score.value
                                                ELSE 0),
                   !.returned = TRUE]
    /\ UNCHANGED <<searchVars, call, tbVars>>

\* The find_best_move call of get_ai_move has returned, and get_ai_move
\* returns its result.
GetAiMoveReturn ==
    /\ ai.op = "find_best_move"
    /\ ~ai.returned
    /\ stack = <<>>
    /\ ai' = [ai EXCEPT !.best_result = result,
                        !.max_depth_reached = ai.depth,
                        !.returned = TRUE]
    /\ UNCHANGED <<searchVars, call>>

\* ------------------------------------------------------------------------
\* Properties of the game object
\* ------------------------------------------------------------------------

\* C1: a make_move call returns None and leaves the game state unchanged
\* whenever the status is not Ongoing or validate_move reports the move
\* illegal; it produces a new state only when the status is Ongoing and the
\* move is legal.
C1_RejectionLeavesState ==
    [][call'.op = "make_move" =>
         LET accepted ==
                 /\ state.status = Ongoing
                 /\ validate_move(state.board, call'.from, call'.to,
                                  state.turn).legal
         IN  /\ ~accepted => call'.ret = FALSE /\ state' = state
             /\ accepted => /\ call'.ret = TRUE
                            /\ state' # state
                            /\ Len(state'.history) = Len(state.history) + 1
             /\ call'.ret = TRUE => accepted]_vars

\* A legal move of the side to move was rejected because the game had ended
\* by resignation.
C1_Witness ==
    /\ call.op = "make_move"
    /\ call.ret = FALSE
    /\ state.status.kind = "Resigned"
    /\ Len(state.history) > 0
    /\ validate_move(state.board, call.from, call.to, state.turn).legal

\* C2: every move of generate_all_legal_moves(B, c) is a pseudo-legal move of
\* its piece and leaves c out of check; after a successful make_move the side
\* that just moved is not in check.
C2_LegalMovesAvoidCheck ==
    /\ \A c \in Colors :
          \A m \in Range(generate_all_legal_moves(state.board, c)) :
             /\ is_occupied(state.board, m.from)
             /\ m.piece = get_piece_at(state.board, m.from)
             /\ m \in Range(generate_pseudo_legal_moves(state.board, m.piece,
                                                        m.from))
             /\ ~is_in_check(apply_move(state.board, m), c)
    /\ call.op = "make_move" /\ call.ret = TRUE
          => ~is_in_check(state.board, opposite(state.turn))

\* A move was made, and the side to move has a pseudo-legal move that the
\* check filter removes, next to a legal one.
C2_Witness ==
    /\ call.op = "make_move"
    /\ call.ret = TRUE
    /\ generate_all_legal_moves(state.board, state.turn) # <<>>
    /\ \E k \in DOMAIN state.board :
          /\ state.board[k].color = state.turn
          /\ \E m \in Range(generate_pseudo_legal_moves(
                                state.board, state.board[k], from_key(k))) :
                is_in_check(apply_move(state.board, m), state.turn)

\* C3: in every game state reached from new_game by successful make_move
\* calls no White pawn stands on a cell with r = -4 and no Black pawn on a
\* cell with r = 4.
C3_PawnsPromote ==
    \A k \in DOMAIN state.board :
       state.board[k].piece_type = "Pawn"
          => ~is_promotion_zone(from_key(k), state.board[k].color)

\* C10: for every side S and every cell t holding a piece of the other side,
\* is_attacked(board, t, S) holds exactly when some piece of S has a
\* pseudo-legal move to t.
C10_AttackMatchesMoves ==
    \A S \in Colors :
       \A t \in {k \in DOMAIN state.board : state.board[k].color # S} :
          is_attacked(state.board, from_key(t), S)
             <=> \E k \in DOMAIN state.board :
                    /\ state.board[k].color = S
                    /\ \E m \in Range(generate_pseudo_legal_moves(
                                          state.board, state.board[k],
                                          from_key(k))) :
                          m.to = from_key(t)

\* The piece on from belongs to turn and has a legal move to the cell to.
has_legal_move(board, from, to, turn) ==
    /\ is_occupied(board, from)
    /\ get_piece_at(board, from).color = turn
    /\ \E m \in Range(generate_legal_moves(board, get_piece_at(board, from),
                                           from)) : m.to = to

\* The piece on from has a pseudo-legal move to the cell to that leaves its
\* own king in check.
moves_into_check(board, from, to) ==
    \E m \in Range(generate_pseudo_legal_moves(board, get_piece_at(board, from),
                                               from)) :
       /\ m.to = to
       /\ is_in_check(apply_move(board, m), m.piece.color)

\* The reason of a rejection, by priority.
rejection_reason(board, from, to, turn) ==
    IF to_key(from) \notin DOMAIN board THEN "noPieceAtSource"
    ELSE IF board[to_key(from)].color # turn THEN "notYourPiece"
    ELSE IF to \notin AllCells THEN "invalidDestination"
    ELSE IF moves_into_check(board, from, to) THEN "movesIntoCheck"
    ELSE "illegalMove"

\* C11: validate_move(board, from, to, turn) returns legal = true, no reason
\* and capture = whether to held an enemy piece exactly when the piece at from
\* belongs to turn and has a legal move to to; otherwise it returns legal =
\* false with the one reason of highest priority among noPieceAtSource,
\* notYourPiece, invalidDestination, movesIntoCheck, illegalMove.
C11_ValidationReasons ==
    call.op = "validate_move" =>
       LET board == state.board
           legal == has_legal_move(board, call.from, call.to, state.turn)
       IN  /\ call.ret.legal = legal
           /\ legal => /\ call.ret.reason = "None"
                       /\ call.ret.capture
                             = (/\ to_key(call.to) \in DOMAIN board
                                /\ board[to_key(call.to)].color # state.turn)
           /\ ~legal => call.ret.reason
                           = rejection_reason(board, call.from, call.to,
                                              state.turn)

\* validate_move rejected a pseudo-legal move of a piece of the side to move
\* because it leaves that side's king in check.
C11_Witness ==
    /\ call.op = "validate_move"
    /\ ~call.ret.legal
    /\ call.ret.reason = "movesIntoCheck"
    /\ is_occupied(state.board, call.from)
    /\ get_piece_at(state.board, call.from).color = state.turn

\* C12: on every board obtained from the starting position by applying
\* generated legal moves with apply_move, promotions to a Lance included,
\* every piece has a variant exactly when its type is Lance.
C12_VariantIffLance ==
    \A k \in DOMAIN state.board :
       (state.board[k].variant # "None")
          <=> (state.board[k].piece_type = "Lance")

\* C13: in every game state reached from new_game by successful make_move
\* calls, every occupied key of the board is one of the 61 cells with
\* max(|q|, |r|, |q + r|) <= 4, and each color has exactly one King.
C13_CellsValidOneKing ==
    /\ \A k \in DOMAIN state.board :
          Max2(Max2(Abs(from_key(k).q), Abs(from_key(k).r)),
               Abs(from_key(k).q + from_key(k).r)) <= 4
    /\ \A c \in Colors :
          Cardinality({k \in DOMAIN state.board :
                         state.board[k] = PieceNew("King", c)}) = 1

\* ------------------------------------------------------------------------
\* Properties of the search
\* ------------------------------------------------------------------------

\* C4: the entry alpha_beta stores has bound Upper if the node's best value
\* is <= the alpha the node was entered with, Lower if it is >= the beta the
\* node was entered with, and Exact otherwise, at maximizing and at
\* minimizing nodes.
C4_StoredBound ==
    last_store # NoStore =>
       last_store.entry_type =
          IF last_store.score <= last_store.entry_alpha THEN "Upper"
          ELSE IF last_store.score >= last_store.entry_beta THEN "Lower"
          ELSE "Exact"

\* The move mv of color ends the game by checkmate.
delivers_mate(board, mv, color) ==
    LET new_board == apply_move(board, mv)
    IN  /\ generate_all_legal_moves(new_board, opposite(color)) = <<>>
        /\ is_in_check(new_board, opposite(color))

\* A find_best_move call has returned.
search_finished ==
    /\ call.op = "find_best_move"
    /\ stack = <<>>
    /\ searches > 0

\* C5: the search prefers shorter mates, so the mating side's root choice is
\* the shorter mate: when a move of the root mates at once, the move
\* find_best_move returns mates at once.
C5_PrefersShorterMate ==
    search_finished /\ call.depth >= 1 /\ result.best_move # NoMove
       => ((\E m \in Range(generate_all_legal_moves(call.board, call.color)) :
               delivers_mate(call.board, m, call.color))
             => delivers_mate(call.board, result.best_move, call.color))

\* Plain minimax of the same tree: the terminal scores and the leaf
\* evaluation of alpha_beta, no table, no window.
RECURSIVE minimax(_, _, _)
minimax(board, depth, maximizing) ==
    LET color == IF maximizing THEN "White" ELSE "Black"
        moves == generate_all_legal_moves(board, color)
    IN  IF moves = <<>>
        THEN IF is_in_check(board, color)
             THEN IF maximizing THEN (0 - CHECKMATE_VALUE) + depth
                  ELSE CHECKMATE_VALUE - depth
             ELSE STALEMATE_VALUE
        ELSE IF depth = 0 THEN evaluate_position(board)
        ELSE LET scores == {minimax(apply_move(board, moves[i]), depth - 1,
                                    ~maximizing) : i \in 1..Len(moves)}
             IN  IF maximizing
                 THEN CHOOSE x \in scores : \A y \in scores : x >= y
                 ELSE CHOOSE x \in scores : \A y \in scores : x <= y

minimax_root(board, color, depth) ==
    LET moves == generate_all_legal_moves(board, color)
        scores == {minimax(apply_move(board, moves[i]), depth - 1,
                           color # "White") : i \in 1..Len(moves)}
    IN  IF moves = <<>> THEN 0
        ELSE IF color = "White"
        THEN CHOOSE x \in scores : \A y \in scores : x >= y
        ELSE CHOOSE x \in scores : \A y \in scores : x <= y

\* C6: find_best_move started with an empty table, without quiescence, at a
\* depth >= 1 returns the score of a plain minimax of the same depth.
C6_TableKeepsScore ==
    search_finished /\ call.fresh /\ ~call.use_quiescence /\ call.depth >= 1
       => result.score = minimax_root(call.board, call.color, call.depth)

\* The score, depth and bound of the entry are those of the store call.
holds_stored(entry, c) ==
    /\ entry.score = c.score
    /\ entry.depth = c.depth
    /\ entry.entry_type = c.entry_type

\* C14, as stated: for any table state, after store(board, depth, score,
\* entry_type, best_move) an immediate probe(board) returns an entry whose
\* score, depth and entry_type are exactly the stored ones.
C14_StoreThenProbe ==
    call.op = "store" =>
       /\ probe(tt, call.board) # NoEntry
       /\ holds_stored(probe(tt, call.board), call)

\* C14, amended: after a store an immediate probe of the board returns an
\* entry; it holds the stored score, depth and entry_type whenever the key
\* held no entry, or an entry of depth <= the stored depth, before the call;
\* if the key held an entry of strictly greater depth, the probe returns
\* either that entry unchanged or the stored values.
C14_StoreThenProbeUnlessDeeper ==
    [][call'.op = "store" =>
         LET old == probe(tt, call'.board)
             new == probe(tt', call'.board)
         IN  /\ new # NoEntry
             /\ (old = NoEntry \/ old.depth <= call'.depth)
                   => holds_stored(new, call')
             /\ (old # NoEntry /\ old.depth > call'.depth)
                   => (new = old \/ holds_stored(new, call'))]_vars

\* A store was made with a depth below that of the entry the key held, and
\* the probe returns the deeper entry.
C14_Witness ==
    /\ call.op = "store"
    /\ probe(tt, call.board).depth > call.depth
    /\ ~holds_stored(probe(tt, call.board), call)

\* C15: in any table state, a full table included, a store for a position
\* whose key holds an entry of strictly greater depth leaves that entry
\* unchanged, and an entry of a key is only replaced by a store whose depth
\* is >= the depth of the entry it replaces.
C15_DepthPreferred ==
    [][/\ call'.op = "store" =>
            LET old == probe(tt, call'.board)
            IN  old.depth > call'.depth => probe(tt', call'.board) = old
       /\ \A i \in 1..Len(TableBoards) :
             LET board == create_board_from_placements(TableBoards[i])
                 old == probe(tt, board)
                 new == probe(tt', board)
             IN  (old # NoEntry /\ new # NoEntry /\ new # old)
                    => /\ call'.op = "store"
                       /\ call'.depth >= old.depth]_vars

\* C16: after any sequence of store and clear operations on a table created
\* with capacity max_size, size() never exceeds max_size.
C16_SizeBounded == size(tt) <= tt.max_size

\* C17: find_best_move_iterative, for a side with a legal move: the depth-1
\* search runs whatever the time limit; iteration d >= 2 starts only if the
\* elapsed time read just before it does not exceed the limit, and after an
\* iteration is skipped no deeper one starts; the returned move and score are
\* those of the deepest iteration that ran, and max_depth_reached is its
\* depth.
C17_IterativeDeepening ==
    (/\ ai.op = "find_best_move_iterative"
     /\ generate_all_legal_moves(ai.board, ai.color) # <<>>)
       => /\ ai.depth >= 1
          /\ ai.depth <= Max2(1, ai.max_depth)
          /\ \A d \in 2..ai.depth : ai.checks[d - 1] <= ai.time_limit_ms
          /\ Len(ai.checks) > ai.depth - 1
                => /\ ai.returned
                   /\ Len(ai.checks) = ai.depth
                   /\ ai.checks[ai.depth] > ai.time_limit_ms
          /\ ai.returned
                => /\ Len(ai.checks) = ai.depth - 1 => ai.depth >= ai.max_depth
                   /\ ai.best_result = result
                   /\ ai.best_result.best_move # NoMove
                   /\ ai.max_depth_reached = ai.depth

\* A call with max_depth 3 ran the iterations of depth 1 and 2, found the time
\* limit passed before the third, and returned.
C17_Witness ==
    /\ ai.op = "find_best_move_iterative"
    /\ ai.returned
    /\ ai.max_depth = 3
    /\ ai.depth = 2
    /\ Len(ai.checks) = 2
    /\ ai.best_result.best_move # NoMove
    /\ searches = 2

\* The probe of the tablebases finds an entry with a best move for the board
\* of the activation.
tablebase_hit ==
    LET probed == probe_tablebase(tablebases, ai.board, ai.color)
    IN  probed.found /\ probed.entry.best_move # NoSerializedMove

\* C18: get_ai_move consults the tablebase before it searches: if
\* probe_tablebase finds an entry with a best_move, the result is that move
\* (from and to of the entry, captured = the piece on the destination) with
\* score = the tablebase score, and no search is run (statistics zero, table
\* unchanged); in every other case the result is that of the search of the
\* difficulty: Easy depth 2 without quiescence, Medium depth 4 with
\* quiescence, Hard iterative deepening to depth 6 within 5000 ms with
\* quiescence.
C18_TablebaseBeforeSearch ==
    (ai.difficulty # "None" /\ ai.returned) =>
       LET probed == probe_tablebase(tablebases, ai.board, ai.color)
           entry == probed.entry
           mv == ai.best_result.best_move
       IN  IF tablebase_hit
           THEN /\ mv.from = HexCoord(entry.best_move.from_q,
                                      entry.best_move.from_r)
                /\ mv.to = HexCoord(entry.best_move.to_q, entry.best_move.to_r)
                /\ mv.captured = get_piece_at(ai.board, mv.to)
                /\ ai.best_result.score
                     = (CASE entry.wdl = "Win" -> CHECKMATE_VALUE - entry.dtm
                          [] entry.wdl = "Draw" -> 0
                          [] OTHER -> (0 - CHECKMATE_VALUE) + entry.dtm)
                /\ searches = 0
                /\ ai.max_depth_reached = 0
                /\ tt = GLOBAL_TT
                /\ call.op # "find_best_move"
           ELSE /\ ai.best_result = result
                /\ call.op = "find_best_move"
                /\ call.board = ai.board
                /\ call.color = ai.color
                /\ ai.difficulty = "Easy"
                      => /\ searches = 1
                         /\ call.depth = 2
                         /\ ~call.use_quiescence
                /\ ai.difficulty = "Medium"
                      => /\ searches = 1
                         /\ call.depth = 4
                         /\ call.use_quiescence
                /\ ai.difficulty = "Hard"
                      => /\ ai.op = "find_best_move_iterative"
                         /\ ai.max_depth = 6
                         /\ ai.time_limit_ms = 5000
                         /\ searches = ai.depth
                         /\ call.depth = ai.depth
                         /\ call.use_quiescence
                         /\ \A i \in 1..Len(ai.checks) :
                               (ai.checks[i] > 5000) <=> (i = ai.depth)

\* get_ai_move has returned the move of a tablebase entry at difficulty Hard
\* without a search.
C18_Witness ==
    /\ ai.difficulty = "Hard"
    /\ ai.returned
    /\ tablebase_hit
    /\ ai.best_result.best_move # NoMove
    /\ searches = 0

\* ------------------------------------------------------------------------
\* Properties of the tablebases
\* ------------------------------------------------------------------------

\* C26: find_best_move(board, color, d, ...) with d >= 0 explores no line
\* longer than d full-width plies: the full-width recursion stops when the
\* remaining depth reaches 0, so the activations of find_best_move and
\* alpha_beta on the stack, each of which has made one move of the line, are
\* never more than d.
C26_BoundedDepth ==
    (call.op = "find_best_move" /\ stack # <<>>) =>
       /\ Len(stack) <= call.depth
       /\ \A i \in 1..Len(stack) : stack[i].depth >= 1

\* C27: once the status of a game is not Ongoing, no later make_move or
\* resign call changes the status, the board, the turn or the history.
C27_TerminalAbsorbing ==
    [][state.status # Ongoing =>
         /\ state'.status = state.status
         /\ state'.board = state.board
         /\ state'.turn = state.turn
         /\ state'.history = state.history]_vars

\* The score of a tablebase entry for the side to move.
tablebase_score(entry) ==
    CASE entry.wdl = "Win" -> CHECKMATE_VALUE - entry.dtm
      [] entry.wdl = "Draw" -> 0
      [] OTHER -> (0 - CHECKMATE_VALUE) + entry.dtm

\* C28: under any interleaving with another thread that calls set_tablebase
\* or clear_tablebases, whenever get_ai_move returns a tablebase move the
\* returned score is the tablebase score of the entry that supplied the move.
C28_MoveAndScoreOfOneEntry ==
    (ai.op = "probe_tablebase" /\ ai.returned)
       => ai.best_result.score = tablebase_score(probe_result.entry)

\* The side whose node stored an entry: alpha_beta and find_best_move store
\* the best move of the side to move of their node.
stored_by(entry) == entry.best_move.piece.color

\* alpha_beta called with depth on a board with an entry in the table uses
\* the entry: for its return or its window when the depth of the entry is
\* enough, and for the best-move hint when it gets to order its moves.
uses_entry(entry, board, depth, maximizing) ==
    /\ entry # NoEntry
    /\ \/ entry.depth >= depth
       \/ /\ depth # 0
          /\ generate_all_legal_moves(
                 board, IF maximizing THEN "White" ELSE "Black") # <<>>

\* C29: every entry of the table that alpha_beta uses was stored by a node
\* with the same side to move as the probing node, within one search or
\* across the searches that share the table.
C29_EntryOfSameSide ==
    in_loop =>
       LET caller == stack[Len(stack)]
           board == apply_move(caller.board, caller.moves[caller.idx])
           entry == probe(tt, board)
       IN  (uses_entry(entry, board, caller.depth - 1, ~caller.maximizing)
              /\ entry.best_move # NoMove)
             => stored_by(entry) = (IF caller.maximizing THEN "Black"
                                    ELSE "White")

\* The keys of the Win entries of a table.
win_keys(tablebase) ==
    {key \in DOMAIN tablebase.entries : tablebase.entries[key].wdl = "Win"}

\* The legal moves of the position of a key that lead to a Loss entry of the
\* table.
winning_moves(tablebase, key) ==
    LET board == position_map(key)[1]
        side_to_move == position_map(key)[2]
        successor(mv) == get_tablebase_key(apply_move(board, mv),
                                           opposite(side_to_move))
    IN  {mv \in Range(generate_all_legal_moves(board, side_to_move)) :
           /\ successor(mv) \in DOMAIN tablebase.entries
           /\ tablebase.entries[successor(mv)].wdl = "Loss"}

successor_dtm(tablebase, key, mv) ==
    tablebase.entries[get_tablebase_key(
                          apply_move(position_map(key)[1], mv),
                          opposite(position_map(key)[2]))].dtm

\* C7: in every generated tablebase every Win entry has a best_move that is
\* a legal move of its position and leads, with the other side to move, to
\* an entry of the same table that is a Loss with the Win entry's dtm less
\* one.
C7_BestMoveLeadsToLoss ==
    \A name \in DOMAIN tablebases :
       \A key \in win_keys(tablebases[name]) :
          LET entry == tablebases[name].entries[key]
          IN  \E mv \in winning_moves(tablebases[name], key) :
                 /\ from_move(mv) = entry.best_move
                 /\ successor_dtm(tablebases[name], key, mv) = entry.dtm - 1

\* A generated tablebase holds a Win entry that is three or more plies from
\* mate.
C7_Witness ==
    \E name \in DOMAIN tablebases :
       \E key \in win_keys(tablebases[name]) :
          tablebases[name].entries[key].dtm >= 3

\* C8: with the tablebases loaded, the reflection of a position that probes
\* as found (colours swapped, coordinates negated, side to move swapped)
\* probes as found too, with the same WDL; stated for the positions whose
\* reflection lies on the enumerated cells.
C8_ProbeSymmetry ==
    (/\ all_loaded
     /\ call.op = "probe_tablebase"
     /\ probe_result.found
     /\ \A k \in DOMAIN call.board :
           HexCoord(0 - k[1], 0 - k[2]) \in Range(covered_cells))
    => LET reflected == probe_tablebase(tablebases, mirror(call.board),
                                        opposite(call.side_to_move))
       IN  /\ reflected.found
           /\ reflected.entry.wdl = probe_result.entry.wdl

\* C9: in a finished tablebase the dtm of every Win entry is one more than
\* the least dtm among its legal successors that are Loss entries, whatever
\* the order the unknown positions were visited in.
C9_WinDtmMinimal ==
    \A name \in DOMAIN tablebases :
       \A key \in win_keys(tablebases[name]) :
          \A mv \in winning_moves(tablebases[name], key) :
             tablebases[name].entries[key].dtm
                <= 1 + successor_dtm(tablebases[name], key, mv)

\* The entries of a table with the outcome wdl.
count(entries, wdl) == Cardinality({k \in DOMAIN entries : entries[k].wdl = wdl})

\* C19: every entry of the tablebase generated for KNvK has wdl = Draw, for
\* either side to move: no enumerated KNvK position is a checkmate, and the
\* retrograde rounds enter no Win and no Loss.
C19_KnightDraws ==
    /\ (gen.active /\ gen.config = KNvK)
          => \A k \in DOMAIN gen.entries : gen.entries[k].wdl = "Draw"
    /\ KNvK.name \in DOMAIN tablebases
          => \A k \in DOMAIN tablebases[KNvK.name].entries :
                tablebases[KNvK.name].entries[k].wdl = "Draw"

\* The KNvK tablebase is installed; it holds a position where the knight
\* gives check, which is no mate, and a position without a legal move.
C19_Witness ==
    /\ KNvK.name \in DOMAIN tablebases
    /\ \E k \in DOMAIN tablebases[KNvK.name].entries :
          /\ position_map(k)[2] = "Black"
          /\ is_in_check(position_map(k)[1], "Black")
    /\ \E k \in DOMAIN tablebases[KNvK.name].entries :
          generate_all_legal_moves(position_map(k)[1], position_map(k)[2]) = <<>>

\* The two kings of a board are not adjacent.
kings_apart(board) ==
    \A j, k \in DOMAIN board : j # k => hex_distance(from_key(j), from_key(k)) > 1

\* C20: the tablebase generated for KvK is non-empty and every entry is
\* Draw, so it counts no win and no loss; once it is installed,
\* probe_tablebase of a KvK position with non-adjacent kings, for either side
\* to move, returns found with wdl = Draw, and get_tablebase_score returns 0.
C20_KingsDraw ==
    /\ KvK.name \in DOMAIN tablebases
          => LET entries == tablebases[KvK.name].entries
             IN  /\ DOMAIN entries # {}
                 /\ count(entries, "Win") = 0
                 /\ count(entries, "Loss") = 0
                 /\ count(entries, "Draw") = Cardinality(DOMAIN entries)
    /\ (/\ call.op = "probe_tablebase"
        /\ KvK.name \in DOMAIN tablebases
        /\ Cardinality(DOMAIN call.board) = 2
        /\ kings_apart(call.board))
          => /\ probe_result.found
             /\ probe_result.entry.wdl = "Draw"
             /\ get_tablebase_score(tablebases, call.board, call.side_to_move)
                   = [some |-> TRUE, value |-> 0]

\* A KvK position with non-adjacent kings and Black to move was probed with
\* the KvK tablebase installed.
C20_Witness ==
    /\ call.op = "probe_tablebase"
    /\ KvK.name \in DOMAIN tablebases
    /\ Cardinality(DOMAIN call.board) = 2
    /\ kings_apart(call.board)
    /\ call.side_to_move = "Black"
    /\ probe_result.found

\* The keys of the Loss entries of a table.
loss_keys(entries) == {key \in DOMAIN entries : entries[key].wdl = "Loss"}

\* C21: in every generated tablebase of a king and one piece against a lone
\* king, every Loss entry is a position with the lone king's side to move;
\* no position with the side that holds the piece to move is labelled Loss,
\* during the rounds of generate_tablebase or in the installed tablebase.
C21_LossOnlyForLoneKing ==
    /\ (gen.active /\ gen.config.stronger_side # <<>>)
          => \A key \in loss_keys(gen.entries) : position_map(key)[2] = "Black"
    /\ \A name \in DOMAIN tablebases :
          name # KvK.name
             => \A key \in loss_keys(tablebases[name].entries) :
                   position_map(key)[2] = "Black"

\* The KQvK tablebase is installed; it holds a position where the lone king
\* is mated, a position it loses without being mated, and positions with the
\* queen's side to move.
C21_Witness ==
    /\ common_configs[2].name \in DOMAIN tablebases
    /\ LET entries == tablebases[common_configs[2].name].entries
       IN  /\ \E key \in loss_keys(entries) : entries[key].dtm = 0
           /\ \E key \in loss_keys(entries) : entries[key].dtm > 0
           /\ \E key \in DOMAIN entries : position_map(key)[2] = "White"

\* C22: once a tablebase is installed in the registry under a configuration
\* name, no later operation replaces or removes the tablebase registered
\* under that name.
C22_WriteOnce ==
    [][\A name \in DOMAIN tablebases :
          /\ name \in DOMAIN tablebases'
          /\ tablebases'[name] = tablebases[name]]_vars

\* C23: is_in_check(board, color) on a board that has no King of color
\* aborts instead of returning a boolean.
C23_MissingKingIsFatal ==
    (call.op = "is_in_check" /\ find_king(call.board, call.color) = NoCoord)
       => call.aborted

\* The side color has no legal move on the board.
no_legal_move(board, color) ==
    \A k \in DOMAIN board :
       board[k].color = color
          => generate_legal_moves(board, board[k], from_key(k)) = <<>>

\* C24: after every successful make_move by side M the status is Checkmate
\* with winner M exactly when the opponent has no legal move and is in check,
\* Stalemate exactly when the opponent has no legal move and is not in check,
\* and Ongoing otherwise; the turn passes to the opponent and exactly one
\* move is appended to the history.
C24_StatusAfterMove ==
    [][(call'.op = "make_move" /\ call'.ret = TRUE) =>
         LET mover == state.turn
             stuck == no_legal_move(state'.board, opposite(mover))
             checked == is_in_check(state'.board, opposite(mover))
         IN  /\ state'.status = Status("Checkmate", mover)
                   <=> (stuck /\ checked)
             /\ state'.status = Status("Stalemate", "None")
                   <=> (stuck /\ ~checked)
             /\ state'.status = Ongoing <=> ~stuck
             /\ state'.turn = opposite(mover)
             /\ Len(state'.history) = Len(state.history) + 1
             /\ SubSeq(state'.history, 1, Len(state.history)) = state.history
             /\ state'.history[Len(state'.history)].from = call'.from
             /\ state'.history[Len(state'.history)].to = call'.to]_vars

\* A successful make_move has mated the opponent.
C24_Witness ==
    /\ call.op = "make_move"
    /\ call.ret = TRUE
    /\ state.status.kind = "Checkmate"
    /\ state.status.winner = opposite(state.turn)
    /\ no_legal_move(state.board, state.turn)

\* The cell one step from a cell along the delta of a direction, on the
\* board or not: N(0,-1), S(0,1), NE(1,-1), SW(-1,1), NW(-1,0), SE(1,0).
step_to(from, direction) ==
    CASE direction = "N" -> HexCoord(from.q, from.r - 1)
      [] direction = "S" -> HexCoord(from.q, from.r + 1)
      [] direction = "NE" -> HexCoord(from.q + 1, from.r - 1)
      [] direction = "SW" -> HexCoord(from.q - 1, from.r + 1)
      [] direction = "NW" -> HexCoord(from.q - 1, from.r)
      [] OTHER -> HexCoord(from.q + 1, from.r)

\* The pawn moves of the rules: the forward step onto an empty cell of the
\* board and the captures of an opponent piece ahead, each as four
\* promotions when it ends on the promotion rank.
pawn_rule_moves(board, from) ==
    LET piece == board[to_key(from)]
        white == piece.color = "White"
        forward == step_to(from, IF white THEN "N" ELSE "S")
        ahead == {step_to(from, d) : d \in IF white THEN {"N", "NW", "NE"}
                                           ELSE {"S", "SW", "SE"}}
        rank == IF white THEN -4 ELSE 4
        plain == {[from |-> from, to |-> forward, piece |-> piece,
                   captured |-> NoPiece, promotion |-> "None"]
                    : x \in {y \in {forward} :
                               /\ y \in AllCells
                               /\ to_key(y) \notin DOMAIN board}}
                 \cup
                 {[from |-> from, to |-> c, piece |-> piece,
                   captured |-> board[to_key(c)], promotion |-> "None"]
                    : c \in {y \in ahead :
                               /\ to_key(y) \in DOMAIN board
                               /\ board[to_key(y)].color # piece.color}}
    IN  {m \in plain : m.to.r # rank}
           \cup {[m EXCEPT !.promotion = t]
                   : m \in {n \in plain : n.to.r = rank},
                     t \in {"Queen", "Chariot", "Lance", "Knight"}}

\* C25: the pseudo-legal moves of a pawn are exactly the one-step forward
\* move onto an empty cell of the board and the captures of an opponent piece
\* on the cells forward, forward-left and forward-right; a move that ends on
\* the promotion rank is emitted as exactly four moves, one per promotion
\* target, every other move carries no promotion, and no move is emitted
\* twice.
C25_PawnMoves ==
    call.op = "generate_pseudo_legal_moves" =>
       /\ Range(call.moves) = pawn_rule_moves(call.board, call.from)
       /\ Len(call.moves) = Cardinality(pawn_rule_moves(call.board, call.from))

\* A pawn next to its promotion rank steps forward and captures, each as four
\* promotions, with a piece of its own side on the third cell ahead.
C25_Witness ==
    /\ call.op = "generate_pseudo_legal_moves"
    /\ Len(call.moves) = 8
    /\ \E i, j \in 1..Len(call.moves) :
          /\ call.moves[i].captured = NoPiece
          /\ call.moves[j].captured # NoPiece
          /\ call.moves[i].promotion = "Lance"
          /\ call.moves[j].promotion = "Knight"
    /\ Cardinality(DOMAIN call.board) = 3

\* The entries the legal moves of the position of a key lead to; a move
\* that leaves the enumerated positions leads to no entry.
successor_entries(entries, key) ==
    LET board == position_map(key)[1]
        side_to_move == position_map(key)[2]
        moves == generate_all_legal_moves(board, side_to_move)
    IN  [i \in 1..Len(moves) |->
           LET new_key == get_tablebase_key(apply_move(board, moves[i]),
                                            opposite(side_to_move))
           IN  IF new_key \in DOMAIN entries THEN entries[new_key]
               ELSE NoTablebaseEntry]

\* The label of the entry of a key agrees with the labels its moves lead to.
consistent_label(entries, key) ==
    \E successors \in {successor_entries(entries, key)} :
       LET entry == entries[key]
           wins == \E i \in DOMAIN successors : successors[i].wdl = "Loss"
           mated == /\ successors = <<>>
                    /\ is_in_check(position_map(key)[1], position_map(key)[2])
           loses == /\ successors # <<>>
                    /\ \A i \in DOMAIN successors : successors[i].wdl = "Win"
       IN  /\ entry.wdl = "Win" <=> wins
           /\ entry.wdl = "Loss" <=> (mated \/ loses)
           /\ entry.wdl \notin {"Win", "Loss"}
                 => /\ entry.wdl = "Draw"
                    /\ entry.dtm = -1
                    /\ entry.best_move = NoSerializedMove

\* C30: when generate_tablebase returns, for every visiting order of the
\* unknown positions, an entry is Win iff some legal move leads to a Loss
\* entry, Loss iff the side to move is mated or has legal moves that all lead
\* to Win entries, and every other entry is Draw with dtm -1 and no
\* best_move; the loop has stopped because a round changed nothing, not by
\* the cap of 500 rounds.
C30_ConsistentFixedPoint ==
    [][(gen.active /\ ~gen'.active) =>
         /\ ~gen.changed
         /\ gen.iteration < max_iterations
         /\ \A key \in DOMAIN tablebases'[gen.config.name].entries :
               consistent_label(tablebases'[gen.config.name].entries, key)]_vars

\* generate_tablebase has returned a KQvK tablebase after three or more
\* rounds, with wins, losses, and draws of positions that have legal moves.
C30_Witness ==
    /\ ~gen.active
    /\ common_configs[2].name \in DOMAIN tablebases
    /\ LET entries == tablebases[common_configs[2].name].entries
       IN  /\ \E key \in DOMAIN entries :
                entries[key].wdl = "Win" /\ entries[key].dtm >= 3
           /\ \E key \in DOMAIN entries :
                entries[key].wdl = "Loss" /\ entries[key].dtm >= 2
           /\ \E key \in DOMAIN entries :
                /\ entries[key].wdl = "Draw"
                /\ position_map(key)[2] = "White"
                /\ generate_all_legal_moves(position_map(key)[1],
                                            "White") # <<>>

\* ------------------------------------------------------------------------
\* Specifications
\* ------------------------------------------------------------------------

SearchIdle ==
    /\ tt = GLOBAL_TT
    /\ stack = <<>>
    /\ result = NoResult
    /\ last_store = NoStore
    /\ searches = 0
    /\ ai = NoActivation

TablebaseIdle ==
    /\ tablebases = [n \in {} |-> NoTablebase]
    /\ gen = NoGeneration
    /\ probe_result = NotFound
    /\ probes = 0

\* A game played from new_game through the game object.
InitGame ==
    /\ state = create_new_game
    /\ call = NoCall
    /\ script \in 1..Len(ScriptMoves)
    /\ hash_seed = 1
    /\ SearchIdle
    /\ TablebaseIdle

GameMakeMove ==
    /\ Len(state.history) < MaxPlies
    /\ \E a \in Inputs : MakeMove(a[1], a[2])
    /\ UNCHANGED <<ai, script, hash_seed, searchVars, tbVars>>

GameResign ==
    /\ Resign
    /\ UNCHANGED <<ai, script, hash_seed, searchVars, tbVars>>

NextGame == GameMakeMove \/ GameResign

SpecGame == InitGame /\ [][NextGame]_vars

\* Moves made from sparse positions.
InitPlay ==
    /\ script \in 1..Len(PlayStarts)
    /\ state = GameState(
                   create_board_from_placements(PlayStarts[script].placements),
                   PlayStarts[script].turn, 1, 0, <<>>, Ongoing)
    /\ call = NoCall
    /\ hash_seed \in 1..NumSeeds
    /\ SearchIdle
    /\ TablebaseIdle

PlayMakeMove ==
    /\ Len(state.history) < MaxPlayPlies
    /\ \E a \in PlayInputs : MakeMove(a[1], a[2])
    /\ UNCHANGED <<ai, script, hash_seed, searchVars, tbVars>>

NextPlay == PlayMakeMove

SpecPlay == InitPlay /\ [][NextPlay]_vars

\* Searches on the table of the library.
InitSearch ==
    /\ script \in 1..Len(SearchRoots)
    /\ hash_seed \in 1..NumSeeds
    /\ state = create_new_game
    /\ call = NoCall
    /\ SearchIdle
    /\ TablebaseIdle

NextSearch ==
    \/ StartSearch /\ UNCHANGED <<ai, script, hash_seed, state, tbVars>>
    \/ Evaluate /\ UNCHANGED <<ai, script, hash_seed, state, tbVars>>
    \/ Descend /\ UNCHANGED <<ai, script, hash_seed, state, tbVars>>
    \/ Return /\ UNCHANGED <<ai, script, hash_seed, state, tbVars>>
    \/ Finish /\ UNCHANGED <<ai, script, hash_seed, state, tbVars>>

SpecSearch == InitSearch /\ [][NextSearch]_vars

\* initialize_tablebases on the cells of a region, and probes between the
\* calls of generate_tablebase.
InitTablebase ==
    /\ script \in 1..Len(TbRegions)
    /\ hash_seed \in 1..NumSeeds
    /\ state = create_new_game
    /\ call = NoCall
    /\ SearchIdle
    /\ TablebaseIdle

TablebaseProbe ==
    /\ \E p \in ProbeInputs : Probe(p[1], p[2])
    /\ UNCHANGED <<ai, script, hash_seed, state, searchVars>>

NextTablebase ==
    \/ GenStart /\ UNCHANGED <<ai, script, hash_seed, state, searchVars>>
    \/ Round /\ UNCHANGED <<ai, script, hash_seed, state, searchVars>>
    \/ GenFinish /\ UNCHANGED <<ai, script, hash_seed, state, searchVars>>
    \/ TablebaseProbe

SpecTablebase == InitTablebase /\ [][NextTablebase]_vars

\* generate_tablebase for KvK and for KNvK on the cells of a region, each
\* installed by set_tablebase, and probes of boards of two kings.
InitGenerate == InitTablebase

NextGenerate ==
    \/ Generate(KvK) /\ UNCHANGED <<ai, script, hash_seed, state, searchVars>>
    \/ Generate(KNvK) /\ UNCHANGED <<ai, script, hash_seed, state, searchVars>>
    \/ Round /\ UNCHANGED <<ai, script, hash_seed, state, searchVars>>
    \/ GenFinish /\ UNCHANGED <<ai, script, hash_seed, state, searchVars>>
    \/ /\ \E w, b \in Range(covered_cells), side_to_move \in {"White", "Black"} :
             ProbeKings(w, b, side_to_move)
       /\ UNCHANGED <<ai, script, hash_seed, state, searchVars>>

SpecGenerate == InitGenerate /\ [][NextGenerate]_vars

\* The registry of tablebases: generate_tablebase for KvK installed by
\* set_tablebase, set_tablebase with a tablebase without entries,
\* clear_tablebases, and probes of boards of two kings.
InitRegistry == InitTablebase

NextRegistry ==
    \/ Generate(KvK) /\ UNCHANGED <<ai, script, hash_seed, state, searchVars>>
    \/ Round /\ UNCHANGED <<ai, script, hash_seed, state, searchVars>>
    \/ GenFinish /\ UNCHANGED <<ai, script, hash_seed, state, searchVars>>
    \/ ClearTablebases /\ UNCHANGED <<ai, script, hash_seed, state, searchVars>>
    \/ SetTablebase(PieceTablebase(KvK.name, [k \in {} |-> NoTablebaseEntry]))
          /\ UNCHANGED <<ai, script, hash_seed, state, searchVars>>
    \/ /\ \E w, b \in Range(covered_cells), side_to_move \in {"White", "Black"} :
             ProbeKings(w, b, side_to_move)
       /\ UNCHANGED <<ai, script, hash_seed, state, searchVars>>

SpecRegistry == InitRegistry /\ [][NextRegistry]_vars

\* is_in_check on boards with and without the king asked about.
InitCheck ==
    /\ script \in 1..Len(ValidateBoards)
    /\ state = create_new_game
    /\ \E board \in CheckBoards, color \in Colors :
          call = CheckCall("check_args", board, color, FALSE, FALSE)
    /\ hash_seed = 1
    /\ SearchIdle
    /\ TablebaseIdle

NextCheck == IsInCheck /\ UNCHANGED <<ai, script, hash_seed, searchVars, tbVars>>

SpecCheck == InitCheck /\ [][NextCheck]_vars

\* generate_pseudo_legal_moves for a pawn of either side on boards that fill
\* the cells ahead of it in every way.
InitPawn ==
    /\ script = 1
    /\ state = create_new_game
    /\ \E color \in Colors, from \in PawnCells,
          holds \in [1..3 -> PawnNeighbours] :
          call = MovesCall("pawn_args", pawn_board(color, from, holds), from,
                           <<>>)
    /\ hash_seed = 1
    /\ SearchIdle
    /\ TablebaseIdle

NextPawn == PawnMoves /\ UNCHANGED <<ai, script, hash_seed, searchVars, tbVars>>

SpecPawn == InitPawn /\ [][NextPawn]_vars

\* find_best_move called with depth arguments from 0 on; the model follows
\* the recursion to MaxStack activations.
InitDepth == InitSearch

NextDepth ==
    \/ FindBestMove /\ UNCHANGED <<ai, script, hash_seed, state, tbVars>>
    \/ Evaluate /\ UNCHANGED <<ai, script, hash_seed, state, tbVars>>
    \/ Len(stack) < MaxStack /\ Descend
          /\ UNCHANGED <<ai, script, hash_seed, state, tbVars>>
    \/ Return /\ UNCHANGED <<ai, script, hash_seed, state, tbVars>>
    \/ Finish /\ UNCHANGED <<ai, script, hash_seed, state, tbVars>>

SpecDepth == InitDepth /\ [][NextDepth]_vars

\* Games from sparse positions that end by mate or stalemate, with make_move
\* and resign called before and after the end.
InitEnd == InitPlay

NextEnd == PlayMakeMove \/ GameResign

SpecEnd == InitEnd /\ [][NextEnd]_vars

\* get_ai_move in one thread, after initialize_tablebases, and
\* clear_tablebases or set_tablebase in another.
InitRace == InitTablebase

NextRace ==
    \/ ai = NoActivation /\ GenStart
          /\ UNCHANGED <<ai, script, hash_seed, state, searchVars>>
    \/ Round /\ UNCHANGED <<ai, script, hash_seed, state, searchVars>>
    \/ GenFinish /\ UNCHANGED <<ai, script, hash_seed, state, searchVars>>
    \/ AiProbe /\ UNCHANGED <<script, hash_seed, state>>
    \/ AiScore /\ UNCHANGED <<script, hash_seed, state>>
    \/ Evaluate /\ UNCHANGED <<ai, script, hash_seed, state, tbVars>>
    \/ Descend /\ UNCHANGED <<ai, script, hash_seed, state, tbVars>>
    \/ Return /\ UNCHANGED <<ai, script, hash_seed, state, tbVars>>
    \/ Finish /\ UNCHANGED <<ai, script, hash_seed, state, tbVars>>
    \/ GetAiMoveReturn /\ UNCHANGED <<script, hash_seed, state, tbVars>>
    \/ ai # NoActivation /\ ClearTablebases
          /\ UNCHANGED <<ai, script, hash_seed, state, searchVars>>
    \/ ai # NoActivation
          /\ SetTablebase(PieceTablebase(common_configs[2].name,
                                         [k \in {} |-> NoTablebaseEntry]))
          /\ UNCHANGED <<ai, script, hash_seed, state, searchVars>>

SpecRace == InitRace /\ [][NextRace]_vars

\* validate_move on a board, with every pair of coordinates and either turn.
InitValidate ==
    /\ script \in 1..Len(ValidateBoards)
    /\ \E turn \in Colors :
          state = GameState(create_board_from_placements(ValidateBoards[script]),
                            turn, 1, 0, <<>>, Ongoing)
    /\ \E from \in ValidateCoords, to \in ValidateCoords :
          call = Call("args", from, to, FALSE)
    /\ hash_seed = 1
    /\ SearchIdle
    /\ TablebaseIdle

NextValidate == ValidateMove /\ UNCHANGED <<ai, script, hash_seed, searchVars, tbVars>>

SpecValidate == InitValidate /\ [][NextValidate]_vars

\* Boards reached from the starting position by apply_move on generated
\* legal moves.
InitApply == InitGame

NextApply == ApplyMove /\ UNCHANGED <<ai, script, hash_seed, searchVars, tbVars>>

SpecApply == InitApply /\ [][NextApply]_vars

\* Stores and clears on a table of small capacity.
InitTable ==
    /\ script = 1
    /\ hash_seed \in 1..NumSeeds
    /\ state = create_new_game
    /\ call = NoCall
    /\ \E max_size \in 0..MaxTableSize : tt = TranspositionTableNew(max_size)
    /\ stack = <<>>
    /\ result = NoResult
    /\ last_store = NoStore
    /\ searches = 0
    /\ ai = NoActivation
    /\ TablebaseIdle

NextTable ==
    \/ Store /\ UNCHANGED <<ai, script, hash_seed, state, stack, result, last_store, searches, tbVars>>
    \/ Clear /\ UNCHANGED <<ai, script, hash_seed, state, stack, result, last_store, searches, tbVars>>

SpecTable == InitTable /\ [][NextTable]_vars

\* find_best_move_iterative on the table of the library.
InitIterative == InitSearch

NextIterative ==
    \/ IterativeStart /\ UNCHANGED <<script, hash_seed, state, tbVars>>
    \/ Evaluate /\ UNCHANGED <<ai, script, hash_seed, state, tbVars>>
    \/ Descend /\ UNCHANGED <<ai, script, hash_seed, state, tbVars>>
    \/ Return /\ UNCHANGED <<ai, script, hash_seed, state, tbVars>>
    \/ Finish /\ UNCHANGED <<ai, script, hash_seed, state, tbVars>>
    \/ IterativeNext /\ UNCHANGED <<script, hash_seed, state, tbVars>>

SpecIterative == InitIterative /\ [][NextIterative]_vars

\* get_ai_move on the table of the library, before or after
\* initialize_tablebases.
InitAi == InitTablebase

NextAi ==
    \/ ai = NoActivation /\ GenStart /\ UNCHANGED <<ai, script, hash_seed, state, searchVars>>
    \/ Round /\ UNCHANGED <<ai, script, hash_seed, state, searchVars>>
    \/ GenFinish /\ UNCHANGED <<ai, script, hash_seed, state, searchVars>>
    \/ GetAiMove /\ UNCHANGED <<script, hash_seed, state, tbVars>>
    \/ Evaluate /\ UNCHANGED <<ai, script, hash_seed, state, tbVars>>
    \/ Descend /\ UNCHANGED <<ai, script, hash_seed, state, tbVars>>
    \/ Return /\ UNCHANGED <<ai, script, hash_seed, state, tbVars>>
    \/ Finish /\ UNCHANGED <<ai, script, hash_seed, state, tbVars>>
    \/ IterativeNext /\ UNCHANGED <<script, hash_seed, state, tbVars>>
    \/ GetAiMoveReturn /\ UNCHANGED <<script, hash_seed, state, tbVars>>

SpecAi == InitAi /\ [][NextAi]_vars

====
